---- MODULE Spec2Model ----
(***************************************************************************)
(* Glimt: the embedding compute channel.                                   *)
(*   client  src/src/lib/ai/title-prompt.ts  lines 8-97 (lib/ai/embeddings)*)
(*   worker  src/src/workers/embedding.worker.ts                           *)
(*   lifecycle indicator  src/unnamed/part_008 lines 44-114                *)
(* Glimt: the store.                                                      *)
(*   migration runner  src/src/lib/migrations.ts lines 1-96               *)
(*   store operations  src/unnamed/part_007 lines 1-173 (lib/db)          *)
(***************************************************************************)
EXTENDS Integers, Sequences, FiniteSets, TLC

\* ---------------------------------------------------------------- bounds
MaxRequests == 2
MaxLoads == 1
MaxWorkerMsgs == 3
MaxPreloads == 2
MaxVersion == 2
UpLen == 2
MaxCalls == 2
MaxIdeas == 2
MaxDims == 2
MaxAbs == 2
MaxClock == 2
MaxRows == 2

\* ------------------------------------------------------------- constants
Range(q) == {q[j] : j \in DOMAIN q}
Null == "null"
DefaultModel == "Xenova/multilingual-e5-small"
OtherModel == "other-model"
Models == {DefaultModel, OtherModel}
\* idea ids are UUIDs made by createIdea; request ids of embedForQuery are
\* UUIDs made per call.  Both are opaque: ideas are 1..2, the UUID of the
\* n-th embed call is 10 + n.  The n-th embed call carries text n: every call
\* has a text of its own, so a vector tells which call it was computed for.
IdeaIds == {1, 2}
QueryId(n) == 10 + n
UnknownId == 99
TimedOut == "Embedding request timed out after 30000ms"
LoadFailed == "pipeline load failed"
InferFailed == "inference failed"
NotAFunction == "TypeError: ext is not a function"
ProgressValue == 50

Passage(t) == [kind |-> "passage", t |-> t]
Query(t) == [kind |-> "query", t |-> t]
\* the vector a pipeline of model m computes for a text
Embed(m, text) == [model |-> m, text |-> text]

\* EmbeddingRequest
LoadReq(m) == [type |-> "load", modelId |-> m]
EmbedReq(i, text) == [type |-> "embed", id |-> i, text |-> text]
\* EmbeddingResponse
ProgressMsg(m, p) == [type |-> "progress", model |-> m, progress |-> p]
ReadyMsg(m) == [type |-> "ready", model |-> m]
ResultMsg(i, vec) == [type |-> "result", id |-> i, vector |-> vec]
ErrorMsg(i, text) == [type |-> "error", id |-> i, message |-> text]
BroadcastErrorMsg(text) == [type |-> "error", message |-> text]
LoadErrorMsg(text) == [type |-> "load-error", message |-> text]

VARIABLES
  \* client
  reqs,               \* the embed calls made so far: [id, text]; index = the call's promise
  promise,            \* promise[n]: [st |-> "pending" | "resolved" | "rejected", ...]
  pendingRequests,    \* Map<string, PendingRequest>: id -> the call whose resolve/reject/timer it holds
  timers,             \* calls whose setTimeout is live
  embeddingLifecycle, \* ModelLifecycle: [state, progress, modelId, error]
  \* channel
  toWorker,           \* messages posted to the worker and not yet taken by it
  toClient,           \* messages posted by the worker and not yet taken by the client
  posted,             \* how many messages were posted to the worker so far
  \* worker
  extractor,          \* 0 (null) or the pipeline made by load generation v
  loadPromise,        \* 0 (null) or the load generation whose promise it is
  currentModelId,
  loadVersion,
  loads,              \* loads[v]: [model, st, val, cb]: the promise of generation v
  hs,                 \* the onmessage invocations that have not returned, oldest first
  lastLoad,           \* history: the model named by the last `load` message the worker took
  \* store
  MIGRATIONS,         \* the registry: the versions of its entries, in list order
  db,                 \* lib/db's handle: 0 (null) or the Database.load call that made it
  opens,              \* how many times Database.load was called
  store,              \* the SQLite file behind the handle: schema, user_version, transaction
  ideas,              \* relation ideas: id -> [archived]
  embeddings,         \* relation embeddings: the keys <<idea_id, model>> of its rows
  calls,              \* the initDb / runMigrations calls made so far
  uuids,              \* how many ids lib/db has drawn from crypto.randomUUID
  \* the rows in full, the codec, search and the save flows
  codec,              \* the last serializeEmbedding / deserializeEmbedding calls: argument and result
  table,              \* relation ideas in full: id -> [text, title, created_at, updated_at, archived]
  vectors,            \* relation embeddings in full, in stored order: [idea_id, model, dims, vector]
  search,             \* the searchIdeas call: where it is, what it read, what it returned
  flow                \* the save-then-embed flow: where it is and what it did

clientVars == <<reqs, promise, pendingRequests, timers, embeddingLifecycle>>
workerVars == <<extractor, loadPromise, currentModelId, loadVersion, loads, hs, lastLoad>>
dbVars == <<MIGRATIONS, db, opens, store, ideas, embeddings, calls, uuids>>
vars == <<reqs, promise, pendingRequests, timers, embeddingLifecycle,
          toWorker, toClient, posted,
          extractor, loadPromise, currentModelId, loadVersion, loads, hs, lastLoad,
          MIGRATIONS, db, opens, store, ideas, embeddings, calls, uuids,
          codec, table, vectors, search, flow>>
appVars == <<codec, table, vectors, search, flow>>

\* ================================================================ worker
W == [extractor |-> extractor, loadPromise |-> loadPromise,
      currentModelId |-> currentModelId, loadVersion |-> loadVersion,
      loads |-> loads, hs |-> hs, lastLoad |-> lastLoad, out |-> toClient]

SetW(w) ==
  /\ extractor' = w.extractor
  /\ loadPromise' = w.loadPromise
  /\ currentModelId' = w.currentModelId
  /\ loadVersion' = w.loadVersion
  /\ loads' = w.loads
  /\ hs' = SelectSeq(w.hs, LAMBDA h : h.pc # "done")
  /\ lastLoad' = w.lastLoad
  /\ toClient' = w.out

Post(w, m) == [w EXCEPT !.out = Append(@, m)]
Done(w, k) == [w EXCEPT !.hs[k].pc = "done"]
Settled(w, v) == w.loads[v].st \in {"fulfilled", "rejected"}

\* loadModel lines 32-87: a new generation starts loading
StartLoad(w, k, modelId) ==
  LET v == w.loadVersion + 1 IN
  [Post(w, ProgressMsg(modelId, 0)) EXCEPT
     !.loadVersion = v,
     !.currentModelId = modelId,
     !.loadPromise = v,
     !.loads = Append(@, [model |-> modelId, st |-> "loading", val |-> 0, cb |-> FALSE]),
     !.hs[k].pc = "awaitLoad",
     !.hs[k].on = v]

\* onmessage lines 105-110: the embed handler has its pipeline
GotExtractor(w, k, ext) ==
  IF ext = 0
  THEN Done(Post(w, ErrorMsg(w.hs[k].msg.id, NotAFunction)), k)
  ELSE [w EXCEPT !.hs[k].pc = "infer", !.hs[k].ext = ext]

\* onmessage lines 93-118, after `await loadModel(...)` fulfilled with ext
LoadModelFulfilled(w, k, ext) ==
  IF w.hs[k].msg.type = "load" THEN Done(w, k) ELSE GotExtractor(w, k, ext)

\* a failed lazy load reported as an `error` without the request's id
LoadModelRejected_Untagged(w, k) ==
  IF w.hs[k].msg.type = "load"
  THEN Done(Post(w, LoadErrorMsg(LoadFailed)), k)
  ELSE Done(Post(w, BroadcastErrorMsg(LoadFailed)), k)

\* onmessage lines 96-101 and 111-117: `await loadModel(...)` rejected
LoadModelRejected(w, k) ==
  IF w.hs[k].msg.type = "load"
  THEN Done(Post(w, LoadErrorMsg(LoadFailed)), k)
  ELSE Done(Post(w, ErrorMsg(w.hs[k].msg.id, LoadFailed)), k)

\* the promise handler k awaits has settled: its continuation runs
Continue(w, k) ==
  LET h == w.hs[k]
      p == w.loads[h.on]
  IN IF h.pc = "awaitCatch" THEN StartLoad(w, k, h.want)
     ELSE IF p.st = "rejected" THEN LoadModelRejected(w, k)
     ELSE LoadModelFulfilled(w, k, p.val)

Await(w, k, pc, v) ==
  LET w1 == [w EXCEPT !.hs[k].pc = pc, !.hs[k].on = v]
  IN IF Settled(w1, v) THEN Continue(w1, k) ELSE w1

\* loadModel lines 23-33
LoadModel(w, k, modelId) ==
  IF w.extractor # 0 /\ w.currentModelId = modelId
    THEN LoadModelFulfilled(w, k, w.extractor)
  ELSE IF w.loadPromise # 0 /\ w.currentModelId = modelId
    THEN Await(w, k, "awaitLoad", w.loadPromise)
  ELSE IF w.loadPromise # 0 /\ w.currentModelId # modelId
    THEN Await(w, k, "awaitCatch", w.loadPromise)
  ELSE StartLoad(w, k, modelId)

\* the continuations of the handlers waiting on generation v, in the order
\* they started to wait (the microtask queue)
RECURSIVE Resume(_, _, _)
Resume(w, v, k) ==
  IF k > Len(w.hs) THEN w
  ELSE IF w.hs[k].pc \in {"awaitLoad", "awaitCatch"} /\ w.hs[k].on = v
    THEN Resume(Continue(w, k), v, k + 1)
  ELSE Resume(w, v, k + 1)

\* PipelineResolved without the stale check
PipelineResolved_NoStaleCheck(w, v) ==
  Resume([Post(w, ReadyMsg(w.loads[v].model)) EXCEPT
            !.extractor = v,
            !.loads[v].st = "fulfilled",
            !.loads[v].val = v], v, 1)

\* loadModel lines 65-77: createPipeline of generation v resolved
PipelineResolved(w, v) ==
  IF w.loadVersion # v
  THEN [w EXCEPT !.loads[v].st = "disposing"]
  ELSE Resume([Post(w, ReadyMsg(w.loads[v].model)) EXCEPT
                 !.extractor = v,
                 !.loads[v].st = "fulfilled",
                 !.loads[v].val = v], v, 1)

\* loadModel lines 67-68: dispose() of the stale pipeline returned
StaleDisposed(w, v) ==
  Resume([w EXCEPT !.loads[v].st = "fulfilled", !.loads[v].val = w.extractor], v, 1)

\* loadModel lines 78-84: createPipeline of generation v rejected
PipelineRejected(w, v) ==
  LET w1 == IF w.loadVersion = v
            THEN [w EXCEPT !.loadPromise = 0, !.currentModelId = Null]
            ELSE w
  IN Resume([w1 EXCEPT !.loads[v].st = "rejected"], v, 1)

\* onmessage lines 90-104: the handler's run up to its first pending await
OnWorkerMessage(w, msg) ==
  LET k == Len(w.hs) + 1
      modelId == IF msg.type = "load" THEN msg.modelId
                 ELSE IF w.currentModelId # Null THEN w.currentModelId
                 ELSE DefaultModel
      h == [msg |-> msg, pc |-> "start", on |-> 0, ext |-> 0, want |-> modelId]
  IN LoadModel([w EXCEPT !.hs = Append(@, h),
                         !.lastLoad = IF msg.type = "load" THEN msg.modelId ELSE @],
               k, modelId)

\* onmessage lines 105-117: ext(text) settled
InferenceSettled(w, k, ok) ==
  LET h == w.hs[k] IN
  IF ok
  THEN Done(Post(w, ResultMsg(h.msg.id, Embed(w.loads[h.ext].model, h.msg.text))), k)
  ELSE Done(Post(w, ErrorMsg(h.msg.id, InferFailed)), k)

\* ---- worker actions
WorkerReceive ==
  /\ toWorker # <<>>
  /\ SetW(OnWorkerMessage(W, Head(toWorker)))
  /\ toWorker' = Tail(toWorker)
  /\ UNCHANGED <<clientVars, posted, dbVars, appVars>>

PipelineLoadOk ==
  \E v \in DOMAIN loads :
    /\ loads[v].st = "loading"
    /\ SetW(PipelineResolved(W, v))
    /\ UNCHANGED <<clientVars, toWorker, posted, dbVars, appVars>>

PipelineLoadFail ==
  \E v \in DOMAIN loads :
    /\ loads[v].st = "loading"
    /\ SetW(PipelineRejected(W, v))
    /\ UNCHANGED <<clientVars, toWorker, posted, dbVars, appVars>>

\* loadModel lines 54-62: progress_callback
ProgressCallback ==
  \E v \in DOMAIN loads :
    /\ loads[v].st = "loading"
    /\ ~loads[v].cb
    /\ SetW([Post(W, ProgressMsg(loads[v].model, ProgressValue)) EXCEPT !.loads[v].cb = TRUE])
    /\ UNCHANGED <<clientVars, toWorker, posted, dbVars, appVars>>

DisposeDone ==
  \E v \in DOMAIN loads :
    /\ loads[v].st = "disposing"
    /\ SetW(StaleDisposed(W, v))
    /\ UNCHANGED <<clientVars, toWorker, posted, dbVars, appVars>>

InferenceDone ==
  \E k \in DOMAIN hs, ok \in BOOLEAN :
    /\ hs[k].pc = "infer"
    /\ SetW(InferenceSettled(W, k, ok))
    /\ UNCHANGED <<clientVars, toWorker, posted, dbVars, appVars>>

WorkerStep ==
  \/ WorkerReceive
  \/ PipelineLoadOk
  \/ PipelineLoadFail
  \/ ProgressCallback
  \/ DisposeDone
  \/ InferenceDone

\* ================================================================ client
MapSet(m, key, val) == [x \in (DOMAIN m) \cup {key} |-> IF x = key THEN val ELSE m[x]]
MapDelete(m, key) == [x \in (DOMAIN m) \ {key} |-> m[x]]

Pending == [st |-> "pending"]
Resolved(vec) == [st |-> "resolved", val |-> vec]
Rejected(text) == [st |-> "rejected", err |-> text]

Cl == [reqs |-> reqs, promise |-> promise, pendingRequests |-> pendingRequests,
       timers |-> timers, lifecycle |-> embeddingLifecycle, out |-> toWorker,
       posted |-> posted]

SetCl(c) ==
  /\ reqs' = c.reqs
  /\ promise' = c.promise
  /\ pendingRequests' = c.pendingRequests
  /\ timers' = c.timers
  /\ embeddingLifecycle' = c.lifecycle
  /\ toWorker' = c.out
  /\ posted' = c.posted

\* a promise settles once: resolve and reject of a settled promise do nothing
Settle(c, n, outcome) ==
  IF c.promise[n].st = "pending" THEN [c EXCEPT !.promise[n] = outcome] ELSE c

ClearTimeout(c, n) == [c EXCEPT !.timers = @ \ {n}]

\* ModelLifecycle
StartLoading(l, modelId) ==
  [state |-> "loading", progress |-> 0, modelId |-> modelId, error |-> Null]
SetProgress(l, p) == [l EXCEPT !.progress = p]
SetReady(l) == [l EXCEPT !.state = "ready", !.progress = 100, !.error = Null]
SetError(l, text) == [l EXCEPT !.state = "error", !.error = text]

\* worker.onmessage, case 'error' without an id: the loop over the map
RECURSIVE RejectAll(_, _, _)
RejectAll(c, ids, text) ==
  IF ids = {} THEN c
  ELSE LET i == CHOOSE x \in ids : TRUE
           n == c.pendingRequests[i]
       IN RejectAll([Settle(ClearTimeout(c, n), n, Rejected(text)) EXCEPT
                       !.pendingRequests = MapDelete(@, i)],
                    ids \ {i}, text)

\* OnResult that falls back to some pending record when the id is unknown
OnResult_AnyPending(c, data) ==
  LET i == IF data.id \in DOMAIN c.pendingRequests \/ c.pendingRequests = <<>>
           THEN data.id
           ELSE CHOOSE x \in DOMAIN c.pendingRequests : TRUE
  IN IF i \in DOMAIN c.pendingRequests
     THEN LET n == c.pendingRequests[i] IN
          [Settle(ClearTimeout(c, n), n, Resolved(data.vector)) EXCEPT
             !.pendingRequests = MapDelete(@, i)]
     ELSE c

\* worker.onmessage, case 'result'
OnResult(c, data) ==
  IF data.id \in DOMAIN c.pendingRequests
  THEN LET n == c.pendingRequests[data.id] IN
       [Settle(ClearTimeout(c, n), n, Resolved(data.vector)) EXCEPT
          !.pendingRequests = MapDelete(@, data.id)]
  ELSE c

\* OnTaggedError that rejects the whole map
OnTaggedError_All(c, data) == RejectAll(c, DOMAIN c.pendingRequests, data.message)

\* worker.onmessage, case 'error' with an id
OnTaggedError(c, data) ==
  IF data.id \in DOMAIN c.pendingRequests
  THEN LET n == c.pendingRequests[data.id] IN
       [Settle(ClearTimeout(c, n), n, Rejected(data.message)) EXCEPT
          !.pendingRequests = MapDelete(@, data.id)]
  ELSE c

\* the loop over the map ended by its first delete
OnBroadcastError_First(c, data) ==
  IF c.pendingRequests = <<>> THEN c
  ELSE RejectAll(c, {CHOOSE x \in DOMAIN c.pendingRequests : TRUE}, data.message)

\* worker.onmessage, case 'error' without an id
OnBroadcastError(c, data) == RejectAll(c, DOMAIN c.pendingRequests, data.message)

\* worker.onmessage, case 'error': `'id' in data && data.id` (an empty id is falsy)
OnError(c, data) ==
  IF "id" \in DOMAIN data /\ data.id # 0
  THEN OnTaggedError(c, data)
  ELSE OnBroadcastError(c, data)

\* a load-error handled as a broadcast error as well
OnLoadError_RejectAll(c, data) ==
  [RejectAll(c, DOMAIN c.pendingRequests, data.message) EXCEPT
     !.lifecycle = SetError(@, data.message)]

\* worker.onmessage, case 'load-error'
OnLoadError(c, data) == [c EXCEPT !.lifecycle = SetError(@, data.message)]

\* worker.onmessage
OnMessage(c, data) ==
  CASE data.type = "result" -> OnResult(c, data)
    [] data.type = "progress" -> [c EXCEPT !.lifecycle = SetProgress(@, data.progress)]
    [] data.type = "ready" -> [c EXCEPT !.lifecycle = SetReady(@)]
    [] data.type = "load-error" -> OnLoadError(c, data)
    [] data.type = "error" -> OnError(c, data)
    [] OTHER -> c

\* sendToWorker
SendToWorker(c, request) ==
  LET n == Len(c.reqs) + 1 IN
  [c EXCEPT !.reqs = Append(@, [id |-> request.id, text |-> request.text]),
            !.promise = Append(@, Pending),
            !.timers = @ \cup {n},
            !.pendingRequests = MapSet(@, request.id, n),
            !.out = Append(@, request),
            !.posted = @ + 1]

\* a timer callback that rejects only while the map still holds its own record
OnTimeout_OnlyIfMapped(c, n) ==
  IF /\ c.reqs[n].id \in DOMAIN c.pendingRequests
     /\ c.pendingRequests[c.reqs[n].id] = n
  THEN Settle([c EXCEPT !.timers = @ \ {n},
                        !.pendingRequests = MapDelete(@, c.reqs[n].id)],
              n, Rejected(TimedOut))
  ELSE [c EXCEPT !.timers = @ \ {n}]

\* sendToWorker, the setTimeout callback of call n
OnTimeout(c, n) ==
  Settle([c EXCEPT !.timers = @ \ {n},
                   !.pendingRequests = MapDelete(@, c.reqs[n].id)],
         n, Rejected(TimedOut))

\* a preload that drops the pending requests of the model it replaces
Preload_DropPending(c) ==
  [c EXCEPT !.lifecycle = StartLoading(@, DefaultModel),
            !.out = Append(@, LoadReq(DefaultModel)),
            !.posted = @ + 1,
            !.pendingRequests = <<>>,
            !.timers = {}]

\* preloadEmbeddingModel
Preload(c) ==
  [c EXCEPT !.lifecycle = StartLoading(@, DefaultModel),
            !.out = Append(@, LoadReq(DefaultModel)),
            !.posted = @ + 1]

\* ---- client actions
EmbedForStorage ==
  /\ Len(reqs) < MaxRequests
  /\ \E id \in IdeaIds :
       SetCl(SendToWorker(Cl, EmbedReq(id, Passage(Len(reqs) + 1))))
  /\ UNCHANGED <<workerVars, toClient, dbVars, appVars>>

EmbedForQuery ==
  /\ Len(reqs) < MaxRequests
  /\ SetCl(SendToWorker(Cl, EmbedReq(QueryId(Len(reqs) + 1), Query(Len(reqs) + 1))))
  /\ UNCHANGED <<workerVars, toClient, dbVars, appVars>>

PreloadEmbeddingModel ==
  /\ posted - Len(reqs) < MaxLoads
  /\ SetCl(Preload(Cl))
  /\ UNCHANGED <<workerVars, toClient, dbVars, appVars>>

\* timers of one delay fire in the order they were set
TimerFire ==
  \E n \in timers :
    /\ \A m \in timers : n <= m
    /\ SetCl(OnTimeout(Cl, n))
    /\ UNCHANGED <<workerVars, toClient, dbVars, appVars>>

ClientReceive ==
  /\ toClient # <<>>
  /\ SetCl(OnMessage(Cl, Head(toClient)))
  /\ toClient' = Tail(toClient)
  /\ UNCHANGED <<workerVars, dbVars, appVars>>

ClientStep ==
  \/ EmbedForStorage
  \/ EmbedForQuery
  \/ PreloadEmbeddingModel
  \/ TimerFire
  \/ ClientReceive

\* ================================================================= store
channelVars == <<reqs, promise, pendingRequests, timers, embeddingLifecycle,
                 toWorker, toClient, posted,
                 extractor, loadPromise, currentModelId, loadVersion, loads, hs, lastLoad>>

NotInitialized == "Database not initialized. Call initDb() first."
LoadRejected == "Database.load rejected"

\* the statements runMigrations hands to db.execute; the `up` of a migration
\* is UpLen statements, the first of which makes the migration's tables
BeginTransaction == [op |-> "BEGIN TRANSACTION", v |-> 0, j |-> 0]
CommitStmt == [op |-> "COMMIT", v |-> 0, j |-> 0]
RollbackStmt == [op |-> "ROLLBACK", v |-> 0, j |-> 0]
UpStmt(v, j) == [op |-> "up", v |-> v, j |-> j]
SetUserVersion(v) == [op |-> "PRAGMA user_version =", v |-> v, j |-> 0]
SelectUserVersion == [op |-> "PRAGMA user_version", v |-> 0, j |-> 0]

\* the error a failing statement rejects with, and the error runMigrations throws
StatementError(stmt) == [failed |-> stmt]
Description(v) == <<"description of migration", v>>
MigrationError(v, cause) ==
  [migration |-> v, description |-> Description(v), cause |-> cause]

\* ---- the SQLite file behind the handle.  A transaction works on a copy of
\* the schema and of user_version that COMMIT makes the file's and ROLLBACK
\* drops; a statement that fails changes nothing.
FreshStore(version, schema) ==
  [user_version |-> version, schema |-> schema,
   tx |-> FALSE, w_version |-> version, w_schema |-> schema]

\* what a statement sees
VisibleVersion(s) == IF s.tx THEN s.w_version ELSE s.user_version
VisibleSchema(s) == IF s.tx THEN s.w_schema ELSE s.schema

\* BEGIN inside a transaction and COMMIT or ROLLBACK outside one are errors
CanExecute(s, stmt) ==
  CASE stmt = BeginTransaction -> ~s.tx
    [] stmt \in {CommitStmt, RollbackStmt} -> s.tx
    [] OTHER -> TRUE

Execute(s, stmt) ==
  CASE stmt = BeginTransaction ->
         [s EXCEPT !.tx = TRUE, !.w_version = s.user_version, !.w_schema = s.schema]
    [] stmt = CommitStmt ->
         [s EXCEPT !.tx = FALSE, !.user_version = s.w_version, !.schema = s.w_schema]
    [] stmt = RollbackStmt ->
         [s EXCEPT !.tx = FALSE, !.w_version = s.user_version, !.w_schema = s.schema]
    [] stmt.op = "up" ->
         IF s.tx THEN [s EXCEPT !.w_schema = @ \cup {stmt}]
         ELSE [s EXCEPT !.schema = @ \cup {stmt}, !.w_schema = @ \cup {stmt}]
    [] stmt.op = "PRAGMA user_version =" ->
         IF s.tx THEN [s EXCEPT !.w_version = stmt.v]
         ELSE [s EXCEPT !.user_version = stmt.v, !.w_version = stmt.v]
    [] OTHER -> s

\* the rows `PRAGMA user_version` can give: the version; a store that has no
\* version yet may also give no row (read as 0 by line 73)
Rows(s) ==
  {<<VisibleVersion(s)>>} \cup (IF VisibleVersion(s) = 0 THEN {<<>>} ELSE {})

D == [MIGRATIONS |-> MIGRATIONS, db |-> db, opens |-> opens, store |-> store,
      ideas |-> ideas, embeddings |-> embeddings, calls |-> calls, uuids |-> uuids]

SetD(d) ==
  /\ MIGRATIONS' = d.MIGRATIONS
  /\ db' = d.db
  /\ opens' = d.opens
  /\ store' = d.store
  /\ ideas' = d.ideas
  /\ embeddings' = d.embeddings
  /\ calls' = d.calls
  /\ uuids' = d.uuids

\* a call of initDb or of runMigrations: where it stands and what it did
NewCall(kind, pc) ==
  [kind |-> kind, pc |-> pc, out |-> Pending, ran |-> FALSE, handle |-> 0,
   base |-> 0, rows |-> Null, current |-> 0, pending |-> <<>>, i |-> 0, j |-> 0,
   issued |-> <<>>, err |-> Null]

Finish(d, k, outcome) == [d EXCEPT !.calls[k].pc = "done", !.calls[k].out = outcome]

\* db.execute(stmt) by call k; `ok` is whether the store lets it succeed
Succeeds(d, stmt, ok) == ok /\ CanExecute(d.store, stmt)
Issue(d, k, stmt, ok) ==
  [d EXCEPT !.calls[k].issued = Append(@, stmt),
            !.store = IF Succeeds(d, stmt, ok) THEN Execute(@, stmt) ELSE @]

\* migrations.ts line 69
CURRENT_SCHEMA_VERSION(d) == d.MIGRATIONS[Len(d.MIGRATIONS)]

\* runMigrations lines 71-72: the call starts and asks for the version
StartRun(d, k) ==
  [d EXCEPT !.calls[k].pc = "select", !.calls[k].ran = TRUE,
            !.calls[k].base = d.store.user_version]

\* the transaction opened before the version is compared
VersionRead_BeginFirst(d, k, rows) ==
  LET currentVersion == IF rows = <<>> THEN 0 ELSE rows[1]
      pending == SelectSeq(d.MIGRATIONS, LAMBDA v : v > currentVersion)
      d1 == Issue([d EXCEPT !.calls[k].rows = rows, !.calls[k].current = currentVersion],
                  k, BeginTransaction, TRUE)
  IN IF currentVersion >= CURRENT_SCHEMA_VERSION(d) \/ pending = <<>>
     THEN Finish(d1, k, Resolved(Null))
     ELSE [d1 EXCEPT !.calls[k].pending = pending,
                     !.calls[k].i = 1,
                     !.calls[k].pc = IF d1.store.tx THEN "up" ELSE "begin",
                     !.calls[k].j = 1]

\* the whole registry run whatever the version read
VersionRead_RunAll(d, k, rows) ==
  LET currentVersion == IF rows = <<>> THEN 0 ELSE rows[1]
  IN [d EXCEPT !.calls[k].rows = rows,
               !.calls[k].current = currentVersion,
               !.calls[k].pending = d.MIGRATIONS,
               !.calls[k].i = 1,
               !.calls[k].pc = "begin"]

\* runMigrations lines 72-79: the version read
VersionRead(d, k, rows) ==
  LET currentVersion == IF rows = <<>> THEN 0 ELSE rows[1]
      pending == SelectSeq(d.MIGRATIONS, LAMBDA v : v > currentVersion)
      d1 == [d EXCEPT !.calls[k].rows = rows, !.calls[k].current = currentVersion]
  IN IF currentVersion >= CURRENT_SCHEMA_VERSION(d) \/ pending = <<>>
     THEN Finish(d1, k, Resolved(Null))
     ELSE [d1 EXCEPT !.calls[k].pending = pending,
                    !.calls[k].i = 1,
                    !.calls[k].pc = "begin"]

\* runMigrations line 72: db.select rejected
VersionReadFailed(d, k) == Finish(d, k, Rejected(StatementError(SelectUserVersion)))

\* runMigrations line 80
ExecBegin(d, k, ok) ==
  LET d1 == Issue(d, k, BeginTransaction, ok)
  IN IF Succeeds(d, BeginTransaction, ok)
     THEN [d1 EXCEPT !.calls[k].pc = "up", !.calls[k].j = 1]
     ELSE Finish(d1, k, Rejected(StatementError(BeginTransaction)))

\* runMigrations line 85: a statement of the try block rejected
Caught(d, k, stmt) ==
  [d EXCEPT !.calls[k].pc = "rollback", !.calls[k].err = StatementError(stmt)]

\* runMigrations line 82: one statement of migration.up
ExecUp(d, k, ok) ==
  LET c == d.calls[k]
      stmt == UpStmt(c.pending[c.i], c.j)
      d1 == Issue(d, k, stmt, ok)
  IN IF ~Succeeds(d, stmt, ok) THEN Caught(d1, k, stmt)
     ELSE IF c.j < UpLen THEN [d1 EXCEPT !.calls[k].j = c.j + 1]
     ELSE [d1 EXCEPT !.calls[k].pc = "version"]

\* the version write left out of the transaction
ExecVersion_Skipped(d, k, ok) == [d EXCEPT !.calls[k].pc = "commit"]

\* runMigrations line 83
ExecVersion(d, k, ok) ==
  LET stmt == SetUserVersion(d.calls[k].pending[d.calls[k].i])
      d1 == Issue(d, k, stmt, ok)
  IN IF Succeeds(d, stmt, ok) THEN [d1 EXCEPT !.calls[k].pc = "commit"]
     ELSE Caught(d1, k, stmt)

\* runMigrations lines 84 and 79: COMMIT, then the next pending migration
ExecCommit(d, k, ok) ==
  LET c == d.calls[k]
      d1 == Issue(d, k, CommitStmt, ok)
  IN IF ~Succeeds(d, CommitStmt, ok) THEN Caught(d1, k, CommitStmt)
     ELSE IF c.i < Len(c.pending)
     THEN [d1 EXCEPT !.calls[k].i = c.i + 1, !.calls[k].pc = "begin"]
     ELSE Finish(d1, k, Resolved(Null))

\* a failing ROLLBACK not caught: its error is the one thrown
ExecRollback_Surface(d, k, ok) ==
  LET c == d.calls[k]
  IN Finish(Issue(d, k, RollbackStmt, ok), k,
            IF Succeeds(d, RollbackStmt, ok)
            THEN Rejected(MigrationError(c.pending[c.i], c.err))
            ELSE Rejected(StatementError(RollbackStmt)))

\* the error logged instead of thrown: the loop goes on to the next migration
ExecRollback_Continue(d, k, ok) ==
  LET c == d.calls[k]
      d1 == Issue(d, k, RollbackStmt, ok)
  IN IF c.i < Len(c.pending)
     THEN [d1 EXCEPT !.calls[k].i = c.i + 1, !.calls[k].pc = "begin"]
     ELSE Finish(d1, k, Rejected(MigrationError(c.pending[c.i], c.err)))

\* runMigrations lines 86-93: ROLLBACK, whose own failure is swallowed, then throw
ExecRollback(d, k, ok) ==
  LET c == d.calls[k]
  IN Finish(Issue(d, k, RollbackStmt, ok), k,
            Rejected(MigrationError(c.pending[c.i], c.err)))

\* the next db.execute of call k settled
Step(d, k, ok) ==
  CASE d.calls[k].pc = "begin" -> ExecBegin(d, k, ok)
    [] d.calls[k].pc = "up" -> ExecUp(d, k, ok)
    [] d.calls[k].pc = "version" -> ExecVersion(d, k, ok)
    [] d.calls[k].pc = "commit" -> ExecCommit(d, k, ok)
    [] d.calls[k].pc = "rollback" -> ExecRollback(d, k, ok)
    [] OTHER -> d

\* ---- actions of the migration runner
\* runMigrations(db) called on its own, one run after the other
RunMigrations ==
  /\ Len(calls) < MaxCalls
  /\ \A k \in DOMAIN calls : calls[k].pc = "done"
  /\ SetD(StartRun([D EXCEPT !.calls = Append(@, NewCall("run", "start"))],
                   Len(calls) + 1))
  /\ UNCHANGED <<channelVars, appVars>>

SelectVersion ==
  \E k \in DOMAIN calls :
    /\ calls[k].pc = "select"
    /\ \/ \E rows \in Rows(store) : SetD(VersionRead(D, k, rows))
       \/ SetD(VersionReadFailed(D, k))
    /\ UNCHANGED <<channelVars, appVars>>

MigrationStep ==
  \E k \in DOMAIN calls, ok \in BOOLEAN :
    /\ calls[k].pc \in {"begin", "up", "version", "commit", "rollback"}
    /\ SetD(Step(D, k, ok))
    /\ UNCHANGED <<channelVars, appVars>>

\* ---- lib/db
\* the arguments of a store operation: the fields an operation does not take
\* are ignored by it
Ids == 1..MaxIdeas
StoreModels == {"multilingual-e5-small", "other-embedding-model"}
Args == [id : Ids, ids : {<<>>, <<1>>}, flag : BOOLEAN, model : StoreModels]
StoreOps == {"createIdea", "getIdeas", "getIdea", "getIdeasByIds", "updateIdea",
             "deleteIdea", "archiveIdea", "searchIdeasFts", "storeEmbedding",
             "getAllEmbeddings", "deleteEmbedding"}
\* the arguments that tell two calls of an operation apart
ArgsOf(op) ==
  {a \in Args :
     /\ op \in {"getIdea", "updateIdea", "deleteIdea", "archiveIdea", "searchIdeasFts",
                "storeEmbedding", "deleteEmbedding"} \/ a.id = 1
     /\ op = "getIdeasByIds" \/ a.ids = <<>>
     /\ op \in {"getIdeas", "archiveIdea"} \/ a.flag
     /\ op \in {"storeEmbedding", "getAllEmbeddings"} \/ a.model = "multilingual-e5-small"}
NoSuchTable == "no such table"
ForeignKeyFailed == "FOREIGN KEY constraint failed"

\* initDb lines 15-17, up to `await Database.load(...)`
InitDbCall(d) ==
  LET k == Len(d.calls) + 1
  IN IF d.db # 0
     THEN Finish([d EXCEPT !.calls = Append(@, NewCall("init", "start"))], k, Resolved(Null))
     ELSE [d EXCEPT !.calls = Append(@, [NewCall("init", "load") EXCEPT !.handle = d.opens + 1]),
                    !.opens = @ + 1]

\* initDb lines 17-18: Database.load resolved: the handle is kept, the runner starts
DatabaseLoaded(d, k) == StartRun([d EXCEPT !.db = d.calls[k].handle], k)

\* initDb line 17: Database.load rejected
DatabaseLoadRejected(d, k) == Finish(d, k, Rejected(LoadRejected))

\* the tables of migration 1 (migrations.ts lines 14-41) are there for a statement
TablesExist(s) == UpStmt(1, 1) \in VisibleSchema(s)

\* what an operation gives back: the state, the promise's outcome, the queries sent
Reply(d, outcome, queries) == [d |-> d, out |-> outcome, queries |-> queries]
Answer(d, val) == Reply(d, Resolved(val), 1)

\* createIdea lines 37-52
CreateIdea(d, a) ==
  LET id == d.uuids + 1
      d1 == [d EXCEPT !.uuids = id]
  IN IF TablesExist(d.store)
     THEN Answer([d1 EXCEPT !.ideas = MapSet(@, id, [archived |-> FALSE])], id)
     ELSE Reply(d1, Rejected(NoSuchTable), 1)

\* getIdeas lines 57-62
GetIdeas(d, a) ==
  IF TablesExist(d.store)
  THEN Answer(d, {i \in DOMAIN d.ideas : d.ideas[i].archived = a.flag})
  ELSE Reply(d, Rejected(NoSuchTable), 1)

\* getIdea lines 67-71
GetIdea(d, a) ==
  IF TablesExist(d.store)
  THEN Answer(d, IF a.id \in DOMAIN d.ideas THEN a.id ELSE Null)
  ELSE Reply(d, Rejected(NoSuchTable), 1)

\* getIdeasByIds lines 76-82
SelectByIds(d, a) ==
  IF TablesExist(d.store)
  THEN Answer(d, Range(a.ids) \cap DOMAIN d.ideas)
  ELSE Reply(d, Rejected(NoSuchTable), 1)

\* updateIdea lines 87-105
UpdateIdea(d, a) ==
  IF TablesExist(d.store) THEN Answer(d, Null) ELSE Reply(d, Rejected(NoSuchTable), 1)

\* deleteIdea line 110; the rows of embeddings go with the idea
\* (migrations.ts line 34: REFERENCES ideas(id) ON DELETE CASCADE)
DeleteIdea(d, a) ==
  IF TablesExist(d.store)
  THEN Answer([d EXCEPT !.ideas = MapDelete(@, a.id),
                        !.embeddings = {e \in @ : e[1] # a.id}], Null)
  ELSE Reply(d, Rejected(NoSuchTable), 1)

\* archiveIdea lines 115-120
ArchiveIdea(d, a) ==
  IF TablesExist(d.store)
  THEN Answer(IF a.id \in DOMAIN d.ideas
              THEN [d EXCEPT !.ideas[a.id].archived = a.flag] ELSE d, Null)
  ELSE Reply(d, Rejected(NoSuchTable), 1)

\* searchIdeasFts lines 125-132: the rows of ideas the index joins to
SearchIdeasFts(d, a) ==
  IF TablesExist(d.store)
  THEN Answer(d, {i \in DOMAIN d.ideas : i = a.id})
  ELSE Reply(d, Rejected(NoSuchTable), 1)

\* storeEmbedding lines 142-146 with the foreign key left unchecked
StoreEmbedding_NoForeignKey(d, a) ==
  IF TablesExist(d.store)
  THEN Answer([d EXCEPT !.embeddings = @ \cup {<<a.id, a.model>>}], Null)
  ELSE Reply(d, Rejected(NoSuchTable), 1)

\* storeEmbedding lines 142-146: INSERT OR REPLACE on the key (idea_id, model);
\* idea_id must be the id of a row of ideas (migrations.ts line 34)
StoreEmbedding(d, a) ==
  IF ~TablesExist(d.store) THEN Reply(d, Rejected(NoSuchTable), 1)
  ELSE IF a.id \notin DOMAIN d.ideas THEN Reply(d, Rejected(ForeignKeyFailed), 1)
  ELSE Answer([d EXCEPT !.embeddings = @ \cup {<<a.id, a.model>>}], Null)

\* getAllEmbeddings lines 154-166
GetAllEmbeddings(d, a) ==
  IF TablesExist(d.store)
  THEN Answer(d, {e[1] : e \in {x \in d.embeddings : x[2] = a.model}})
  ELSE Reply(d, Rejected(NoSuchTable), 1)

\* deleteEmbedding line 172
DeleteEmbedding(d, a) ==
  IF TablesExist(d.store)
  THEN Answer([d EXCEPT !.embeddings = {e \in @ : e[1] # a.id}], Null)
  ELSE Reply(d, Rejected(NoSuchTable), 1)

\* the operation's query, once getDb gave the handle
RunQuery(d, op, a) ==
  CASE op = "createIdea" -> CreateIdea(d, a)
    [] op = "getIdeas" -> GetIdeas(d, a)
    [] op = "getIdea" -> GetIdea(d, a)
    [] op = "getIdeasByIds" -> SelectByIds(d, a)
    [] op = "updateIdea" -> UpdateIdea(d, a)
    [] op = "deleteIdea" -> DeleteIdea(d, a)
    [] op = "archiveIdea" -> ArchiveIdea(d, a)
    [] op = "searchIdeasFts" -> SearchIdeasFts(d, a)
    [] op = "storeEmbedding" -> StoreEmbedding(d, a)
    [] op = "getAllEmbeddings" -> GetAllEmbeddings(d, a)
    [] op = "deleteEmbedding" -> DeleteEmbedding(d, a)

\* getDb lines 8-13, as every operation calls it
GetDb(d, op, a) ==
  IF d.db = 0 THEN Reply(d, Rejected(NotInitialized), 0) ELSE RunQuery(d, op, a)

\* a store operation called with arguments a
Call(d, op, a) ==
  IF op = "getIdeasByIds" /\ a.ids = <<>>
  THEN Reply(d, Resolved({}), 0)
  ELSE GetDb(d, op, a)

\* ---- actions of lib/db
InitDb ==
  /\ Len(calls) < MaxCalls
  /\ SetD(InitDbCall(D))
  /\ UNCHANGED <<channelVars, appVars>>

LoadSettles ==
  \E k \in DOMAIN calls :
    /\ calls[k].pc = "load"
    /\ \/ SetD(DatabaseLoaded(D, k))
       \/ SetD(DatabaseLoadRejected(D, k))
    /\ UNCHANGED <<channelVars, appVars>>

StoreCall ==
  \E op \in StoreOps :
  \E a \in ArgsOf(op) :
    /\ op = "createIdea" => uuids < MaxIdeas
    /\ SetD(Call(D, op, a).d)
    /\ UNCHANGED <<channelVars, appVars>>

\* ================================================================= codec
\* src/src/lib/embedding-codec.ts.  A number[] holds integers of magnitude up
\* to MaxAbs, which binary32 holds exactly; a float32 is its three IEEE-754
\* fields; a byte array is a sequence of 0..255.
Bias == 127
FracBits == 23
BytesPerFloat == 4
RECURSIVE Pow2(_)
Pow2(n) == IF n = 0 THEN 1 ELSE 2 * Pow2(n - 1)
RECURSIVE Log2(_)
Log2(n) == IF n < 2 THEN 0 ELSE 1 + Log2(n \div 2)
Abs(n) == IF n < 0 THEN 0 - n ELSE n

\* the element new Float32Array(vector) holds for the number n
ToFloat32(n) ==
  IF n = 0 THEN [sign |-> 0, exp |-> 0, frac |-> 0]
  ELSE LET e == Log2(Abs(n)) IN
       [sign |-> IF n < 0 THEN 1 ELSE 0,
        exp |-> Bias + e,
        frac |-> (Abs(n) - Pow2(e)) * Pow2(FracBits - e)]
\* the number an element of a Float32Array reads as, when it is a whole number
IsWhole(f) ==
  \/ f.exp = 0 /\ f.frac = 0
  \/ /\ f.exp \in Bias..(Bias + FracBits)
     /\ f.frac % Pow2(FracBits - (f.exp - Bias)) = 0
Float32Value(f) ==
  IF f.exp = 0 /\ f.frac = 0 THEN 0
  ELSE LET m == (Pow2(FracBits) + f.frac) \div Pow2(FracBits - (f.exp - Bias)) IN
       IF f.sign = 1 THEN 0 - m ELSE m
\* the four bytes of an element in the buffer, lowest first, and back
BytesOf_BigEndian(f) ==
  <<(f.exp \div 2) + 128 * f.sign,
    (f.frac \div 65536) + 128 * (f.exp % 2),
    (f.frac \div 256) % 256,
    f.frac % 256>>
BytesOf(f) ==
  <<f.frac % 256,
    (f.frac \div 256) % 256,
    (f.frac \div 65536) + 128 * (f.exp % 2),
    (f.exp \div 2) + 128 * f.sign>>
FloatOf(b) ==
  [sign |-> b[4] \div 128,
   exp |-> (b[4] % 128) * 2 + b[3] \div 128,
   frac |-> (b[3] % 128) * 65536 + b[2] * 256 + b[1]]
Float32Array(vector) == [j \in DOMAIN vector |-> ToFloat32(vector[j])]
RECURSIVE BufferOf(_)
BufferOf(floats) ==
  IF floats = <<>> THEN <<>> ELSE BytesOf(Head(floats)) \o BufferOf(Tail(floats))

\* the shapes a value handed to deserializeEmbedding can have
RawArray(items) == [shape |-> "array", items |-> items]
TypedBuffer(items) == [shape |-> "Uint8Array", items |-> items]
StringEncoded(items) == [shape |-> "string", items |-> items]
PlainObject(n) == [shape |-> "object", length |-> n]
NullValue == [shape |-> "null"]
UndefinedValue == [shape |-> "undefined"]
NumberValue == [shape |-> "number"]
RangeError == "RangeError: byte length of Float32Array should be a multiple of 4"

serializeEmbedding(vector) == RawArray(BufferOf(Float32Array(vector)))

\* new Uint8Array(raw): every item modulo 256
Uint8ArrayOf(items) == [j \in DOMAIN items |-> items[j] % 256]
\* new Float32Array(buffer): throws unless the buffer holds whole elements
Thrown(error) == [shape |-> "throw", error |-> error]
Float32ArrayOf(bytes) ==
  IF Len(bytes) % BytesPerFloat # 0 THEN Thrown(RangeError)
  ELSE [shape |-> "Float32Array",
        items |-> [j \in 1..(Len(bytes) \div BytesPerFloat) |->
                     FloatOf(SubSeq(bytes, BytesPerFloat * (j - 1) + 1, BytesPerFloat * j))]]

deserializeEmbedding_NoLengthCheck(raw, expectedDims) ==
  IF raw.shape # "array" THEN NullValue
  ELSE Float32ArrayOf(Uint8ArrayOf(raw.items))
deserializeEmbedding_AnyShape(raw, expectedDims) ==
  IF raw.shape \notin {"array", "Uint8Array", "string"} THEN NullValue
  ELSE IF Len(raw.items) # expectedDims * BytesPerFloat THEN NullValue
  ELSE Float32ArrayOf(Uint8ArrayOf(raw.items))
deserializeEmbedding(raw, expectedDims) ==
  IF raw.shape # "array" THEN NullValue
  ELSE IF Len(raw.items) # expectedDims * BytesPerFloat THEN NullValue
  ELSE Float32ArrayOf(Uint8ArrayOf(raw.items))

\* the arguments of the calls
Numbers == (0 - MaxAbs)..MaxAbs
NumberVectors == UNION {[1..n -> Numbers] : n \in 0..MaxDims}
\* what a caller may hand to deserializeEmbedding in place of a byte array
RawInputs(items) ==
  {RawArray(items), RawArray(items \o <<0>>), TypedBuffer(items), StringEncoded(items),
   PlainObject(Len(items)), NullValue, UndefinedValue, NumberValue}
  \cup (IF items = <<>> THEN {} ELSE {RawArray(SubSeq(items, 1, Len(items) - 1))})

\* serializeEmbedding(vector), of the vector at hand
Serialize ==
  /\ codec.fn = "input"
  /\ codec' = [fn |-> "serializeEmbedding", vector |-> codec.vector,
               out |-> serializeEmbedding(codec.vector)]
  /\ UNCHANGED <<channelVars, dbVars, table, vectors, search, flow>>

Deserialize ==
  /\ codec.fn = "serializeEmbedding"
  /\ \E raw \in RawInputs(codec.out.items) :
     \E expectedDims \in 0..MaxDims :
       codec' = [fn |-> "deserializeEmbedding", vector |-> codec.vector,
                 raw |-> raw, expectedDims |-> expectedDims,
                 out |-> deserializeEmbedding(raw, expectedDims)]
  /\ UNCHANGED <<channelVars, dbVars, table, vectors, search, flow>>

\* ========================================================= rows in full
\* lib/db (src/unnamed/part_007) on an opened store: what its statements do
\* to the rows of ideas and embeddings.  Date.now() is an argument.
Undefined == "undefined"
Texts == {"first thought", "second thought"}
Titles == {"a title"}
Clock == 0..MaxClock
EMBEDDING_MODEL == "multilingual-e5-small"
\* IdeaUpdate: text?: string, title?: string | null
Updates == [text : Texts \cup {Undefined}, title : Titles \cup {Null, Undefined}]

R == [table |-> table, vectors |-> vectors]
SetR(r) ==
  /\ table' = r.table
  /\ vectors' = r.vectors

createIdea(r, id, text, now) ==
  [r EXCEPT !.table = MapSet(@, id, [text |-> text, title |-> Null, created_at |-> now,
                                     updated_at |-> now, archived |-> FALSE])]

updateIdea_OverwriteAll(r, id, updates, now) ==
  IF id \notin DOMAIN r.table THEN r
  ELSE [r EXCEPT !.table[id] =
          [@ EXCEPT !.updated_at = now,
                    !.text = updates.text,
                    !.title = IF updates.title = Undefined THEN Null ELSE updates.title]]
updateIdea(r, id, updates, now) ==
  IF id \notin DOMAIN r.table THEN r
  ELSE [r EXCEPT !.table[id] =
          [@ EXCEPT !.updated_at = now,
                    !.text = IF updates.text # Undefined THEN updates.text ELSE @,
                    !.title = IF updates.title # Undefined THEN updates.title ELSE @]]

archiveIdea(r, id, archived, now) ==
  IF id \notin DOMAIN r.table THEN r
  ELSE [r EXCEPT !.table[id] = [@ EXCEPT !.archived = archived, !.updated_at = now]]

\* ON DELETE CASCADE takes the idea's embeddings with it
deleteIdea(r, id) ==
  LET Other(row) == row.idea_id # id IN
  [table |-> MapDelete(r.table, id), vectors |-> SelectSeq(r.vectors, Other)]

EmbeddingRow(ideaId, model, vector) ==
  [idea_id |-> ideaId, model |-> model, dims |-> Len(vector),
   vector |-> serializeEmbedding(vector)]
\* INSERT OR REPLACE: the row of the same (idea_id, model) goes, the new one
\* is added; without the idea the foreign key fails the statement
storeEmbedding(r, ideaId, model, vector) ==
  LET Other(row) == ~(row.idea_id = ideaId /\ row.model = model) IN
  IF ideaId \notin DOMAIN r.table THEN r
  ELSE [r EXCEPT !.vectors = Append(SelectSeq(@, Other), EmbeddingRow(ideaId, model, vector))]

RECURSIVE FlatMap_StopAtCorrupt(_)
FlatMap_StopAtCorrupt(rows) ==
  IF rows = <<>> THEN <<>>
  ELSE LET row == Head(rows)
           vector == deserializeEmbedding(row.vector, row.dims)
       IN IF vector = NullValue THEN <<>>
          ELSE <<[ideaId |-> row.idea_id, vector |-> vector]>> \o FlatMap_StopAtCorrupt(Tail(rows))
RECURSIVE FlatMap(_)
FlatMap(rows) ==
  IF rows = <<>> THEN <<>>
  ELSE LET row == Head(rows)
           vector == deserializeEmbedding(row.vector, row.dims)
       IN (IF vector = NullValue THEN <<>>
           ELSE <<[ideaId |-> row.idea_id, vector |-> vector]>>) \o FlatMap(Tail(rows))
getAllEmbeddings(r, model) ==
  LET OfModel(row) == row.model = model IN FlatMap(SelectSeq(r.vectors, OfModel))

\* SELECT * FROM ideas WHERE id IN (ids): the ideas by id
getIdeasByIds(r, ids) == [id \in (DOMAIN r.table) \cap ids |-> r.table[id]]

CreateIdeaRow ==
  /\ \E id \in IdeaIds \ DOMAIN table :
     \E text \in Texts :
     \E now \in Clock :
       SetR(createIdea(R, id, text, now))
  /\ UNCHANGED <<channelVars, dbVars, codec, search, flow>>

UpdateIdeaRow ==
  /\ \E id \in IdeaIds :
     \E updates \in Updates :
     \E now \in Clock :
       SetR(updateIdea(R, id, updates, now))
  /\ UNCHANGED <<channelVars, dbVars, codec, search, flow>>

ArchiveIdeaRow ==
  /\ \E id \in IdeaIds :
     \E archived \in BOOLEAN :
     \E now \in Clock :
       SetR(archiveIdea(R, id, archived, now))
  /\ UNCHANGED <<channelVars, dbVars, codec, search, flow>>

StoreEmbeddingRow ==
  /\ \E ideaId \in IdeaIds :
       SetR(storeEmbedding(R, ideaId, EMBEDDING_MODEL, <<1>>))
  /\ UNCHANGED <<channelVars, dbVars, codec, search, flow>>

\* ================================================================ search
\* lib/search (src/src/lib/shortcut.ts lines 316-366).  A query is the
\* sequence of its characters.
DefaultTopK == 20
Whitespace == {" ", "\t", "\n"}
RECURSIVE TrimStart(_)
TrimStart(q) == IF q # <<>> /\ Head(q) \in Whitespace THEN TrimStart(Tail(q)) ELSE q
RECURSIVE TrimEnd(_)
TrimEnd(q) ==
  IF q # <<>> /\ q[Len(q)] \in Whitespace THEN TrimEnd(SubSeq(q, 1, Len(q) - 1)) ELSE q
Trim(q) == TrimEnd(TrimStart(q))

\* v[i] ?? 0
At(v, i) == IF i \in DOMAIN v THEN v[i] ELSE 0
\* the sum of a[i] * b[i] over the first n indexes
RECURSIVE Dot(_, _, _)
Dot(a, b, n) == IF n = 0 THEN 0 ELSE Dot(a, b, n - 1) + At(a, n) * At(b, n)
Max(m, n) == IF m > n THEN m ELSE n
\* a loop over the indexes of the longer argument
cosineSimilarity_OverLonger(a, b) ==
  LET n == Max(Len(a), Len(b))
      normA == Dot(a, a, n)
      normB == Dot(b, b, n)
  IN IF normA * normB = 0 THEN [num |-> 0, den2 |-> 1]
     ELSE [num |-> Dot(a, b, n), den2 |-> normA * normB]
\* the number num / sqrt(den2); the loop runs over the indexes of a
cosineSimilarity(a, b) ==
  LET dot == Dot(a, b, Len(a))
      normA == Dot(a, a, Len(a))
      normB == Dot(b, b, Len(a))
  IN IF normA * normB = 0 THEN [num |-> 0, den2 |-> 1]
     ELSE [num |-> dot, den2 |-> normA * normB]
\* s > t as numbers
Greater(s, t) ==
  IF s.num >= 0 /\ t.num < 0 THEN TRUE
  ELSE IF s.num < 0 /\ t.num >= 0 THEN FALSE
  ELSE IF s.num >= 0 THEN s.num * s.num * t.den2 > t.num * t.num * s.den2
  ELSE s.num * s.num * t.den2 < t.num * t.num * s.den2
\* the numbers a Float32Array reads as
NumbersOf(vector) == [j \in DOMAIN vector.items |-> Float32Value(vector.items[j])]

Scored(queryVector, allEmbeddings) ==
  [j \in DOMAIN allEmbeddings |->
     [ideaId |-> allEmbeddings[j].ideaId,
      score |-> cosineSimilarity(queryVector, NumbersOf(allEmbeddings[j].vector))]]
\* scored.sort((a, b) => b.score - a.score): stable, highest first
RECURSIVE InsertByScore(_, _)
InsertByScore(x, sorted) ==
  IF sorted = <<>> THEN <<x>>
  ELSE IF Greater(x.score, Head(sorted).score) THEN <<x>> \o sorted
  ELSE <<Head(sorted)>> \o InsertByScore(x, Tail(sorted))
RECURSIVE SortByScore(_)
SortByScore(scored) ==
  IF scored = <<>> THEN <<>>
  ELSE InsertByScore(scored[Len(scored)], SortByScore(SubSeq(scored, 1, Len(scored) - 1)))
Slice(q, n) == SubSeq(q, 1, IF n < Len(q) THEN n ELSE Len(q))
TopResults_Unsorted(scored, topK) == Slice(scored, topK)
TopResults(scored, topK) == Slice(SortByScore(scored), topK)

rowToIdea(id, row) ==
  [id |-> id, createdAt |-> row.created_at, updatedAt |-> row.updated_at,
   text |-> row.text, title |-> row.title, archived |-> row.archived]
RECURSIVE Results_KeepMissing(_, _)
Results_KeepMissing(topResults, ideaMap) ==
  IF topResults = <<>> THEN <<>>
  ELSE LET x == Head(topResults) IN
       <<[idea |-> IF x.ideaId \in DOMAIN ideaMap
                   THEN rowToIdea(x.ideaId, ideaMap[x.ideaId]) ELSE [id |-> x.ideaId],
          score |-> x.score, source |-> "semantic"]>>
       \o Results_KeepMissing(Tail(topResults), ideaMap)
RECURSIVE Results(_, _)
Results(topResults, ideaMap) ==
  IF topResults = <<>> THEN <<>>
  ELSE LET x == Head(topResults) IN
       (IF x.ideaId \in DOMAIN ideaMap
        THEN <<[idea |-> rowToIdea(x.ideaId, ideaMap[x.ideaId]),
                score |-> x.score, source |-> "semantic"]>>
        ELSE <<>>) \o Results(Tail(topResults), ideaMap)

Blank_EmptyOnly(query) == query = <<>>
Blank(query) == Trim(query) = <<>>

\* the arguments of searchIdeas and what embedForQuery resolves with
Queries == {<<>>, <<" ", " ", " ">>, <<"t">>, <<" ", "t">>}
TopKs == {1, DefaultTopK}
QueryVectors == {<<1, 0>>, <<0, 1>>}

\* cosineSimilarity(a, b) is called and returns
CosineSimilarity ==
  /\ search.pc = "cosineSimilarity"
  /\ search' = [search EXCEPT !.pc = "returned"]
                 @@ [out |-> cosineSimilarity(search.a, search.b)]
  /\ UNCHANGED <<channelVars, dbVars, codec, table, vectors, flow>>

\* searchIdeas(query, topK) up to its first await
SearchIdeas ==
  /\ search.pc = "idle"
  /\ \E query \in Queries :
     \E topK \in TopKs :
       search' = IF Blank(query)
                 THEN [pc |-> "done", query |-> query, topK |-> topK,
                       embedRequests |-> 0, reads |-> 0, out |-> <<>>]
                 ELSE [pc |-> "embedForQuery", query |-> query, topK |-> topK,
                       embedRequests |-> 1, reads |-> 0]
  /\ UNCHANGED <<channelVars, dbVars, codec, table, vectors, flow>>

\* embedForQuery resolves: getAllEmbeddings is called
QueryEmbedded ==
  /\ search.pc = "embedForQuery"
  /\ \E queryVector \in QueryVectors :
       search' = [search EXCEPT !.pc = "getAllEmbeddings"] @@ [queryVector |-> queryVector]
  /\ UNCHANGED <<channelVars, dbVars, codec, table, vectors, flow>>

\* embedForQuery rejects: so does searchIdeas
QueryEmbedFailed ==
  /\ search.pc = "embedForQuery"
  /\ search' = [search EXCEPT !.pc = "failed"] @@ [err |-> TimedOut]
  /\ UNCHANGED <<channelVars, dbVars, codec, table, vectors, flow>>

\* the embeddings arrive: they are scored and cut, and getIdeasByIds is
\* called, which returns at once when it is given no id
EmbeddingsRead ==
  /\ search.pc = "getAllEmbeddings"
  /\ LET allEmbeddings == getAllEmbeddings(R, EMBEDDING_MODEL)
         scored == Scored(search.queryVector, allEmbeddings)
         topResults == TopResults(scored, search.topK)
         read == [search EXCEPT !.reads = @ + 1]
                   @@ [scored |-> scored, topResults |-> topResults]
     IN search' = IF topResults = <<>>
                  THEN [read EXCEPT !.pc = "done"] @@ [ideas |-> <<>>, out |-> <<>>]
                  ELSE [read EXCEPT !.pc = "getIdeasByIds"]
  /\ UNCHANGED <<channelVars, dbVars, codec, table, vectors, flow>>

\* the ideas arrive: the results are put together
IdeasRead ==
  /\ search.pc = "getIdeasByIds"
  /\ LET ideaMap == getIdeasByIds(R, {x.ideaId : x \in Range(search.topResults)})
     IN search' = [search EXCEPT !.pc = "done", !.reads = @ + 1]
                    @@ [ideas |-> ideaMap, out |-> Results(search.topResults, ideaMap)]
  /\ UNCHANGED <<channelVars, dbVars, codec, table, vectors, flow>>

\* another window deletes an idea
DeleteIdeaRow ==
  /\ \E id \in DOMAIN table : SetR(deleteIdea(R, id))
  /\ UNCHANGED <<channelVars, dbVars, codec, search, flow>>

\* ============================================================ save flows
\* The three handlers that write an idea and then embed it:
\*   finishSave                  src/src/capture-app.tsx lines 129-162, 188-197
\*   handleTranscriptionComplete src/src/indicator-app.tsx lines 63-111
\*   handleUpdate                src/unnamed/part_003 lines 91-125
Handlers == {"finishSave", "handleTranscriptionComplete", "handleUpdate"}
\* what a handler does once the embedding was awaited
CompletionStep(kind) == IF kind = "handleUpdate" THEN "loadIdeas" ELSE "emit idea-saved"

NewFlow(kind, id, text) ==
  [kind |-> kind, pc |-> "race", id |-> id, text |-> text, written |-> TRUE,
   embed |-> "pending", timer |-> "live", race |-> "pending", logged |-> FALSE,
   step |-> Null]
\* await Promise.race([embedPromise, timeout]) inside try / catch: a rejection
\* is logged, and the handler goes on either way
RaceSettled_Uncaught(f, outcome) ==
  IF f.pc # "race" THEN f
  ELSE [f EXCEPT !.pc = IF outcome = "rejected" THEN "failed" ELSE "completion",
                 !.race = outcome]
RaceSettled(f, outcome) ==
  IF f.pc # "race" THEN f
  ELSE [f EXCEPT !.pc = "completion", !.race = outcome, !.logged = (outcome = "rejected")]

\* the primary write, then embedForStorage is called and raced against 10 s
SaveIdea ==
  /\ flow.pc = "idle"
  /\ \E text \in Texts :
     \E now \in Clock :
       \/ \E kind \in {"finishSave", "handleTranscriptionComplete"} :
          \E id \in IdeaIds \ DOMAIN table :
            /\ SetR(createIdea(R, id, text, now))
            /\ flow' = NewFlow(kind, id, text)
       \/ \E id \in DOMAIN table :
            /\ SetR(updateIdea(R, id, [text |-> text, title |-> Undefined], now))
            /\ flow' = NewFlow("handleUpdate", id, text)
  /\ UNCHANGED <<channelVars, dbVars, codec, search>>

\* the primary write rejects: the handler's outer catch
PrimaryWriteFails ==
  /\ flow.pc = "idle"
  /\ \E kind \in Handlers :
       flow' = [pc |-> "failed", kind |-> kind, written |-> FALSE]
  /\ UNCHANGED <<channelVars, dbVars, codec, search, table, vectors>>

\* embedForStorage resolves: storeEmbedding runs, and settles either way
EmbedResolves ==
  /\ flow.pc \in {"race", "completion", "done"}
  /\ flow.embed = "pending"
  /\ \/ /\ SetR(storeEmbedding(R, flow.id, EMBEDDING_MODEL, <<1, 0>>))
        /\ flow' = RaceSettled([flow EXCEPT !.embed = "stored"], "fulfilled")
     \/ /\ UNCHANGED <<table, vectors>>
        /\ flow' = RaceSettled([flow EXCEPT !.embed = "store failed"], "rejected")
  /\ UNCHANGED <<channelVars, dbVars, codec, search>>

\* embedForStorage rejects: a worker error or the request's own timeout
EmbedRejects ==
  /\ flow.pc \in {"race", "completion", "done"}
  /\ flow.embed = "pending"
  /\ flow' = RaceSettled([flow EXCEPT !.embed = "rejected"], "rejected")
  /\ UNCHANGED <<channelVars, dbVars, codec, search, table, vectors>>

\* the 10 s timer of the race fires
RaceTimeout ==
  /\ flow.pc \in {"race", "completion", "done"}
  /\ flow.timer = "live"
  /\ flow' = RaceSettled([flow EXCEPT !.timer = "fired"], "timeout")
  /\ UNCHANGED <<channelVars, dbVars, codec, search, table, vectors>>

\* emit('idea-saved') or loadIdeas()
Complete ==
  /\ flow.pc = "completion"
  /\ flow' = [flow EXCEPT !.pc = "done", !.step = CompletionStep(flow.kind)]
  /\ UNCHANGED <<channelVars, dbVars, codec, search, table, vectors>>

\* handleUpdate run again for an idea while its earlier embedding is still
\* awaited.  The numbers a pipeline returns for a text: one vector per text.
NumbersFor(vec) == IF vec.text.t = "first thought" THEN <<1, 0>> ELSE <<0, 1>>

\* handleUpdate(id, text): updateIdea, then embedForStorage(id, text); what
\* follows the race (loadIdeas, the toast) touches neither relation
HandleUpdate ==
  /\ Len(reqs) < MaxRequests
  /\ \E id \in IdeaIds \cap DOMAIN table :
     \E text \in Texts :
     \E now \in Clock :
       /\ SetR(updateIdea(R, id, [text |-> text, title |-> Undefined], now))
       /\ SetCl(SendToWorker(Cl, EmbedReq(id, Passage(text))))
  /\ UNCHANGED <<workerVars, toClient, dbVars, codec, search, flow>>

\* the worker answers its oldest embed message with the vector of that
\* message's text; worker.onmessage resolves the promise the map holds for
\* the id, and that promise's `.then` runs storeEmbedding
EmbeddingAnswered ==
  /\ toWorker # <<>>
  /\ LET msg == Head(toWorker)
         data == ResultMsg(msg.id, Embed(DefaultModel, msg.text))
         c == [OnMessage(Cl, data) EXCEPT !.out = Tail(@)]
     IN /\ SetCl(c)
        /\ IF msg.id \in DOMAIN pendingRequests
           THEN LET n == pendingRequests[msg.id]
                IN SetR(storeEmbedding(R, reqs[n].id, EMBEDDING_MODEL,
                                       NumbersFor(c.promise[n].val)))
           ELSE UNCHANGED <<table, vectors>>
  /\ UNCHANGED <<workerVars, toClient, dbVars, codec, search, flow>>

\* ================================================================== init
ChannelInit ==
  /\ reqs = <<>>
  /\ promise = <<>>
  /\ pendingRequests = <<>>
  /\ timers = {}
  /\ embeddingLifecycle = [state |-> "idle", progress |-> 0, modelId |-> DefaultModel, error |-> Null]
  /\ toWorker = <<>>
  /\ toClient = <<>>
  /\ posted = 0
  /\ extractor = 0
  /\ loadPromise = 0
  /\ currentModelId = Null
  /\ loadVersion = 0
  /\ loads = <<>>
  /\ hs = <<>>
  /\ lastLoad = Null

\* the registry as migrations.ts lines 9-67 has it, on a store that was never opened
TheRegistry == <<1>>

StoreInit ==
  /\ MIGRATIONS = TheRegistry
  /\ db = 0
  /\ opens = 0
  /\ store = FreshStore(0, {})
  /\ ideas = <<>>
  /\ embeddings = {}
  /\ calls = <<>>
  /\ uuids = 0

\* no codec call, no search and no save flow yet; the relations are empty
AppInit ==
  /\ codec = [fn |-> "none"]
  /\ table = <<>>
  /\ vectors = <<>>
  /\ search = [pc |-> "idle"]
  /\ flow = [pc |-> "idle"]

Init == ChannelInit /\ StoreInit /\ AppInit

\* ----------------------------------------------- the worker on its own:
\* any EmbeddingRequest may be posted to it
WorkerRequests ==
  {LoadReq(m) : m \in Models} \cup {EmbedReq(i, Passage(1)) : i \in IdeaIds}

PostToWorker ==
  /\ posted < MaxWorkerMsgs
  /\ \E msg \in WorkerRequests : toWorker' = Append(toWorker, msg)
  /\ posted' = posted + 1
  /\ UNCHANGED <<clientVars, workerVars, toClient, dbVars, appVars>>

WorkerNext == PostToWorker \/ WorkerStep

WorkerSpec == Init /\ [][WorkerNext]_vars
\* ----------------------------------------------- the client on its own:
\* any EmbeddingResponse may reach worker.onmessage
Vectors == {Embed(DefaultModel, Passage(t)) : t \in {1, 2}}
Responses ==
  {ResultMsg(i, vec) : i \in IdeaIds \cup {QueryId(1), UnknownId}, vec \in Vectors}
  \cup {ErrorMsg(i, InferFailed) : i \in IdeaIds \cup {QueryId(1), UnknownId}}
  \cup {BroadcastErrorMsg("Model crashed"), LoadErrorMsg(LoadFailed),
        ProgressMsg(DefaultModel, ProgressValue), ReadyMsg(DefaultModel)}

SimulateMessage ==
  \E data \in Responses :
    /\ SetCl(OnMessage(Cl, data))
    /\ UNCHANGED <<workerVars, toClient, dbVars, appVars>>

ClientNext ==
  \/ EmbedForStorage
  \/ EmbedForQuery
  \/ PreloadEmbeddingModel
  \/ TimerFire
  \/ SimulateMessage

ClientSpec == Init /\ [][ClientNext]_vars

\* ----------------------------------------------- the embed calls on their
\* own: any `result` or `error` may reach worker.onmessage, and a timer that
\* was set and not cleared fires after EMBEDDING_TIMEOUT_MS
SimulateReply ==
  \E data \in {r \in Responses : r.type \in {"result", "error"}} :
    /\ SetCl(OnMessage(Cl, data))
    /\ UNCHANGED <<workerVars, toClient, dbVars, appVars>>

EmbedNext ==
  \/ EmbedForStorage
  \/ EmbedForQuery
  \/ TimerFire
  \/ SimulateReply

EmbedSpec == Init /\ [][EmbedNext]_vars /\ WF_vars(TimerFire)

\* ----------------------------------------------- client and worker together
Next == ClientStep \/ WorkerStep

Spec == Init /\ [][Next]_vars
\* ----------------------------------------------- preloads: the client
\* calls preloadEmbeddingModel, at mount and again later, and the worker
\* loads the model
PreloadModel ==
  /\ posted < MaxPreloads
  /\ SetCl(Preload(Cl))
  /\ UNCHANGED <<workerVars, toClient, dbVars, appVars>>

PreloadNext ==
  \/ PreloadModel
  \/ ClientReceive
  \/ WorkerReceive
  \/ PipelineLoadOk
  \/ PipelineLoadFail
  \/ ProgressCallback

PreloadSpec == Init /\ [][PreloadNext]_vars

\* ----------------------------------------------- the migration runner on
\* its own: any registry in ascending version order, on a store left at any
\* version by the registry's earlier migrations
Versions == 1..MaxVersion
RECURSIVE Ascending(_)
Ascending(q) ==
  Len(q) < 2 \/ (q[1] < q[2] /\ Ascending(Tail(q)))
Distinct(q) == \A a, b \in DOMAIN q : a # b => q[a] # q[b]
Registries ==
  {q \in UNION {[1..n -> Versions] : n \in 1..MaxVersion} : Distinct(q)}
\* the schema of a store whose version is v
SchemaAt(q, v) ==
  {UpStmt(q[a], j) : a \in {b \in DOMAIN q : q[b] <= v}, j \in 1..UpLen}

MigrationInitOf(qs) ==
  /\ ChannelInit
  /\ AppInit
  /\ MIGRATIONS \in qs
  /\ \E v \in 0..MaxVersion : store = FreshStore(v, SchemaAt(MIGRATIONS, v))
  /\ db = 0
  /\ opens = 0
  /\ ideas = <<>>
  /\ embeddings = {}
  /\ calls = <<>>
  /\ uuids = 0

MigrationInit == MigrationInitOf({q \in Registries : Ascending(q)})

MigrationNext == RunMigrations \/ SelectVersion \/ MigrationStep

MigrationSpec == MigrationInit /\ [][MigrationNext]_vars

\* the same with the registry's entries in any order
ReorderedInit == MigrationInitOf(Registries)
ReorderedSpec == ReorderedInit /\ [][MigrationNext]_vars
\* ----------------------------------------------- lib/db: initDb and the
\* store operations, on the registry and the store of a first start
DbNext == InitDb \/ LoadSettles \/ SelectVersion \/ MigrationStep \/ StoreCall

DbSpec == Init /\ [][DbNext]_vars
\* ----------------------------------------------- the store operations on a
\* store that a first initDb opened and migrated without a failure
RECURSIVE RunToEnd(_, _)
RunToEnd(d, k) ==
  IF d.calls[k].pc = "done" THEN d ELSE RunToEnd(Step(d, k, TRUE), k)
Unopened ==
  [MIGRATIONS |-> TheRegistry, db |-> 0, opens |-> 0, store |-> FreshStore(0, {}),
   ideas |-> <<>>, embeddings |-> {}, calls |-> <<>>, uuids |-> 0]
Opened == RunToEnd(VersionRead(DatabaseLoaded(InitDbCall(Unopened), 1), 1, <<0>>), 1)

OpenedInit ==
  /\ ChannelInit
  /\ AppInit
  /\ MIGRATIONS = Opened.MIGRATIONS
  /\ db = Opened.db
  /\ opens = Opened.opens
  /\ store = Opened.store
  /\ ideas = Opened.ideas
  /\ embeddings = Opened.embeddings
  /\ calls = Opened.calls
  /\ uuids = Opened.uuids

\* a later initDb call may come at any time
StoreNext == StoreCall \/ InitDb

StoreSpec == OpenedInit /\ [][StoreNext]_vars
\* ----------------------------------------------- the codec on its own:
\* any vector is serialized, and its bytes come back in any shape and with
\* any expectedDims
CodecInit ==
  /\ ChannelInit
  /\ StoreInit
  /\ \E vector \in NumberVectors : codec = [fn |-> "input", vector |-> vector]
  /\ table = <<>>
  /\ vectors = <<>>
  /\ search = [pc |-> "idle"]
  /\ flow = [pc |-> "idle"]

CodecNext == Serialize \/ Deserialize

CodecSpec == CodecInit /\ [][CodecNext]_vars
\* ----------------------------------------------- the idea rows on their
\* own: ideas are created, updated and archived at any clock reading, and
\* embeddings are stored for them
IdeaNext == CreateIdeaRow \/ UpdateIdeaRow \/ ArchiveIdeaRow \/ StoreEmbeddingRow

IdeaSpec == Init /\ [][IdeaNext]_vars
\* ----------------------------------------------- search on its own: over
\* any stored embeddings, some of them truncated, of ideas that exist
StoredKeys == {<<id, EMBEDDING_MODEL>> : id \in Ids} \cup {<<1, "other-embedding-model">>}
StoredVectors == {<<1, 0>>, <<1, 1>>}
Truncated(row) == [row EXCEPT !.vector.items = SubSeq(@, 1, Len(@) - 1)]
StoredRows ==
  {EmbeddingRow(key[1], key[2], vector) : key \in StoredKeys, vector \in StoredVectors}
  \cup {Truncated(EmbeddingRow(key[1], key[2], <<1, 0>>)) : key \in StoredKeys}
StoredTables ==
  {q \in UNION {[1..n -> StoredRows] : n \in 0..MaxRows} :
     \A a, b \in DOMAIN q :
       a # b => <<q[a].idea_id, q[a].model>> # <<q[b].idea_id, q[b].model>>}

SearchInit ==
  /\ ChannelInit
  /\ StoreInit
  /\ codec = [fn |-> "none"]
  /\ table = [id \in Ids |-> [text |-> "first thought", title |-> Null, created_at |-> 0,
                              updated_at |-> 0, archived |-> (id = 1)]]
  /\ vectors \in StoredTables
  /\ search = [pc |-> "idle"]
  /\ flow = [pc |-> "idle"]

SearchNext ==
  \/ SearchIdeas
  \/ QueryEmbedded
  \/ QueryEmbedFailed
  \/ EmbeddingsRead
  \/ IdeasRead
  \/ DeleteIdeaRow

SearchSpec == SearchInit /\ [][SearchNext]_vars
\* ----------------------------------------------- cosineSimilarity on its
\* own: called with any two vectors, of equal or different lengths
CosineInit ==
  /\ ChannelInit
  /\ StoreInit
  /\ codec = [fn |-> "none"]
  /\ table = <<>>
  /\ vectors = <<>>
  /\ \E a \in NumberVectors :
     \E b \in NumberVectors : search = [pc |-> "cosineSimilarity", a |-> a, b |-> b]
  /\ flow = [pc |-> "idle"]

CosineNext == CosineSimilarity

CosineSpec == CosineInit /\ [][CosineNext]_vars
\* ----------------------------------------------- ideas saved again while
\* their embedding is awaited: the worker answers every embed message, in
\* the order it received them, and timers fire
ResaveInit ==
  /\ ChannelInit
  /\ StoreInit
  /\ codec = [fn |-> "none"]
  /\ table = [id \in IdeaIds |-> [text |-> "first thought", title |-> Null, created_at |-> 0,
                                  updated_at |-> 0, archived |-> FALSE]]
  /\ vectors = <<>>
  /\ search = [pc |-> "idle"]
  /\ flow = [pc |-> "idle"]

ResaveNext == HandleUpdate \/ EmbeddingAnswered \/ TimerFire

ResaveSpec == ResaveInit /\ [][ResaveNext]_vars
\* ----------------------------------------------- the save flows on their
\* own, over a store that holds one idea; the race's timer fires and a
\* handler that can go on does
FlowInit ==
  /\ ChannelInit
  /\ StoreInit
  /\ codec = [fn |-> "none"]
  /\ \E text \in Texts :
     \E stored \in BOOLEAN :
       LET r == createIdea([table |-> <<>>, vectors |-> <<>>], 1, text, 0) IN
       /\ table = r.table
       /\ vectors = IF stored THEN storeEmbedding(r, 1, EMBEDDING_MODEL, <<1, 1>>).vectors
                    ELSE <<>>
  /\ search = [pc |-> "idle"]
  /\ flow = [pc |-> "idle"]

FlowNext ==
  \/ SaveIdea
  \/ PrimaryWriteFails
  \/ EmbedResolves
  \/ EmbedRejects
  \/ RaceTimeout
  \/ Complete

FlowSpec == FlowInit /\ [][FlowNext]_vars /\ WF_vars(RaceTimeout) /\ WF_vars(Complete)
\* ================================================================ claims
\* what the worker posted in this step
NewPosts == SubSeq(toClient', Len(toClient) + 1, Len(toClient'))

\* a pending record is resolved by the `result` that bears its id
ResultResolvesOwn ==
  \A i \in DOMAIN pendingRequests, vec \in Vectors :
    LET n == pendingRequests[i]
        c == OnMessage(Cl, ResultMsg(i, vec))
    IN /\ c.promise[n] = Resolved(vec)
       /\ i \notin DOMAIN c.pendingRequests

\* C1: whatever requests are pending together, the `result` that bears the
\* id of a pending request resolves that request's promise with the vector
\* it carries, and settles the promise of no other request.
C1_OwnVector ==
  \A n \in timers :
    \A vec \in Vectors :
      LET c == OnMessage(Cl, ResultMsg(reqs[n].id, vec))
      IN /\ c.promise[n] = Resolved(vec)
         /\ \A m \in DOMAIN promise \ {n} : c.promise[m] = promise[m]

\* C2: an embed call registers its record under an id that no pending record
\* holds: no step replaces the record an id already maps to.
C2_FreshRequestId ==
  [][\A i \in DOMAIN pendingRequests :
       i \in DOMAIN pendingRequests' => pendingRequests'[i] = pendingRequests[i]]_vars

\* C3: a request whose timer is live is unsettled; when the timer fires with
\* no response processed, it takes the request's id out of the map and
\* rejects the promise with the timeout error; a result or an error bearing
\* the request's id, processed while the timer is live, cancels the timer and
\* settles the promise, so the timeout never rejects it.
C3_TimeoutOrResponse ==
  /\ \A n \in timers : promise[n].st = "pending"
  /\ \A n \in timers :
       LET c == OnTimeout(Cl, n)
       IN /\ c.promise[n] = Rejected(TimedOut)
          /\ reqs[n].id \notin DOMAIN c.pendingRequests
          /\ n \notin c.timers
  /\ \A n \in timers :
       \A data \in {ResultMsg(reqs[n].id, vec) : vec \in Vectors}
                     \cup {ErrorMsg(reqs[n].id, InferFailed)} :
         LET c == OnMessage(Cl, data)
         IN /\ n \notin c.timers
            /\ c.promise[n].st # "pending"
            /\ c.promise[n] # Rejected(TimedOut)

\* C4: an `error` without an id rejects every request of the pending map with
\* the message's text, cancels their timers and empties the map.
C4_BroadcastRejectsAll ==
  LET text == "Model crashed"
      c == OnMessage(Cl, BroadcastErrorMsg(text))
  IN /\ c.pendingRequests = <<>>
     /\ \A i \in DOMAIN pendingRequests :
          /\ c.promise[pendingRequests[i]] = Rejected(text)
          /\ pendingRequests[i] \notin c.timers

C4_Witness ==
  /\ pendingRequests = <<>>
  /\ \E n, m \in DOMAIN promise :
       /\ n # m
       /\ promise[n] = Rejected("Model crashed")
       /\ promise[m] = Rejected("Model crashed")

\* C5: an `error` with an id rejects the record of that id and nothing else:
\* every other record stays in the map with its timer live and is resolved by
\* its own result; an `error` with an id that is not in the map changes nothing.
C5_TaggedErrorRejectsOne ==
  /\ \A i \in DOMAIN pendingRequests : pendingRequests[i] \in timers
  /\ ResultResolvesOwn
  /\ \A i \in IdeaIds \cup {QueryId(n) : n \in 1..MaxRequests} \cup {UnknownId} :
       LET c == OnMessage(Cl, ErrorMsg(i, InferFailed))
       IN IF i \in DOMAIN pendingRequests
          THEN /\ c.promise = [promise EXCEPT ![pendingRequests[i]] = Rejected(InferFailed)]
               /\ c.timers = timers \ {pendingRequests[i]}
               /\ c.pendingRequests = MapDelete(pendingRequests, i)
          ELSE c = Cl

C5_Witness ==
  \E n, m \in DOMAIN promise :
    /\ promise[n] = Rejected(InferFailed)
    /\ promise[m].st = "pending"
    /\ reqs[m].id \in DOMAIN pendingRequests
    /\ pendingRequests[reqs[m].id] = m
    /\ m \in timers

\* C6: a `load-error` puts the lifecycle indicator into the error state and
\* leaves the pending map, the promises and the timers as they are; every
\* pending record is still resolved by its own result.
C6_LoadErrorKeepsPending ==
  /\ ResultResolvesOwn
  /\ LET c == OnMessage(Cl, LoadErrorMsg(LoadFailed))
     IN /\ c.lifecycle.state = "error"
        /\ c.lifecycle.error = LoadFailed
        /\ c.pendingRequests = pendingRequests
        /\ c.promise = promise
        /\ c.timers = timers
        /\ c.reqs = reqs

C6_Witness ==
  /\ embeddingLifecycle.state = "error"
  /\ embeddingLifecycle.error = LoadFailed
  /\ \E i \in DOMAIN pendingRequests :
       /\ promise[pendingRequests[i]].st = "pending"
       /\ pendingRequests[i] \in timers

\* C7: a `result` whose id is not in the pending map changes nothing: no
\* promise, not the map, not the timers, not the lifecycle indicator.
C7_UnknownResultIgnored ==
  \A i \in (IdeaIds \cup {QueryId(n) : n \in 1..MaxRequests} \cup {UnknownId})
             \ DOMAIN pendingRequests :
    \A vec \in Vectors : OnMessage(Cl, ResultMsg(i, vec)) = Cl

C7_Witness ==
  \E n, m \in DOMAIN promise :
    /\ promise[n] = Rejected(TimedOut)
    /\ reqs[n].id \notin DOMAIN pendingRequests
    /\ promise[m].st = "pending"

\* C8: preloadEmbeddingModel posts one `load` and leaves the pending map, the
\* promises and the timers as they are; every pending record is still
\* resolved by its own result.
C8_PreloadKeepsPending ==
  /\ ResultResolvesOwn
  /\ LET c == Preload(Cl)
     IN /\ c.out = Append(toWorker, LoadReq(DefaultModel))
        /\ c.pendingRequests = pendingRequests
        /\ c.promise = promise
        /\ c.timers = timers
        /\ c.reqs = reqs

C8_Witness ==
  /\ posted > Len(reqs)
  /\ toWorker # <<>>
  /\ toWorker[Len(toWorker)] = LoadReq(DefaultModel)
  /\ \E i \in DOMAIN pendingRequests : promise[pendingRequests[i]].st = "pending"

\* ---- worker
\* a `load` for another model arrived while generation v was loading
Superseded(v) ==
  /\ loads[v].st = "loading"
  /\ \E k \in DOMAIN hs :
       hs[k].msg.type = "load" /\ hs[k].pc = "awaitCatch" /\ hs[k].on = v

\* the pipeline of generation v was disposed as stale
Discarded(v) ==
  \/ loads[v].st = "disposing"
  \/ loads[v].st = "fulfilled" /\ loads[v].val # v

EmbedsIn(s, i) ==
  Cardinality({k \in DOMAIN s : s[k].msg.type = "embed" /\ s[k].msg.id = i})
RepliesIn(s, i) ==
  Cardinality({j \in DOMAIN s : /\ s[j].type \in {"result", "error"}
                                /\ "id" \in DOMAIN s[j]
                                /\ s[j].id = i})
\* 1 when this step took an `embed` with id i off the worker's queue
Taken(i) ==
  IF /\ Len(toWorker') < Len(toWorker)
     /\ Head(toWorker).type = "embed"
     /\ Head(toWorker).id = i
  THEN 1 ELSE 0

\* C10: an embed handler returns by posting one reply with its id and no
\* other reply is posted; a handler whose lazy load fails replies `error`
\* with its id; a handler that has not replied waits on something that
\* will settle; no `error` is posted without an id.
C10_OneReplyPerEmbed ==
  /\ [](\A j \in DOMAIN toClient :
          toClient[j].type = "error"
            => "id" \in DOMAIN toClient[j] /\ toClient[j].id # 0)
  /\ [](\A k \in DOMAIN hs :
          hs[k].msg.type = "embed"
            => \/ hs[k].pc = "infer"
               \/ hs[k].pc = "awaitLoad" /\ loads[hs[k].on].st = "loading")
  /\ [][\A i \in IdeaIds :
          EmbedsIn(hs, i) + Taken(i) = EmbedsIn(hs', i) + RepliesIn(NewPosts, i)]_vars
  /\ [][\A k \in DOMAIN hs :
          /\ hs[k].msg.type = "embed"
          /\ hs[k].pc = "awaitLoad"
          /\ loads'[hs[k].on].st = "rejected"
          => ErrorMsg(hs[k].msg.id, LoadFailed) \in Range(NewPosts)]_vars

C10_Witness ==
  /\ \E j \in DOMAIN toClient : toClient[j].type = "result"
  /\ \E j \in DOMAIN toClient :
       toClient[j].type = "error" /\ toClient[j].message = LoadFailed
  /\ \E j \in DOMAIN toClient :
       toClient[j].type = "error" /\ toClient[j].message = InferFailed
\* ---- migration runner
\* what a run that applies the versions q issues, statement by statement
RECURSIVE Script(_)
Script(q) ==
  IF q = <<>> THEN <<>>
  ELSE <<BeginTransaction>> \o [j \in 1..UpLen |-> UpStmt(q[1], j)]
       \o <<SetUserVersion(q[1]), CommitStmt>> \o Script(Tail(q))
Highest(q) == CHOOSE v \in Range(q) : \A u \in Range(q) : u <= v
IsMigrationError(out) == out.st = "rejected" /\ "migration" \in DOMAIN out.err

\* C11: a run that starts on a store of version 0, reads version 0 or no row
\* and in which no statement fails has issued, for every registered migration
\* in turn and once, BEGIN TRANSACTION, its `up` statements, the write of its
\* version and COMMIT, and leaves the counter at the highest registered version.
C11_FreshInstallAppliesAll ==
  \A k \in DOMAIN calls :
    LET c == calls[k] IN
    c.pc = "done" /\ c.out.st = "resolved" /\ c.base = 0 /\ c.current = 0
      => /\ c.issued = Script(MIGRATIONS)
         /\ store.user_version = Highest(MIGRATIONS)
         /\ store.schema = {UpStmt(v, j) : v \in Range(MIGRATIONS), j \in 1..UpLen}

C11_Witness ==
  \E k, m \in DOMAIN calls :
    /\ calls[k].pc = "done" /\ calls[k].out.st = "resolved"
    /\ calls[k].base = 0 /\ calls[k].current = 0
    /\ Len(calls[k].issued) > 0
    /\ Len(MIGRATIONS) = 2
    /\ \/ calls[k].rows = <<>>
       \/ calls[m].out.st = "rejected" /\ m < k /\ calls[k].rows = <<0>>

\* C12: when the persisted version is at or above the highest registered
\* version, the version read ends the run: it returns with no statement
\* executed and the store as it was.
C12_AtCurrentNoStatements ==
  /\ \A k \in DOMAIN calls :
       calls[k].pc = "select" /\ store.user_version >= Highest(MIGRATIONS)
         => \A rows \in Rows(store) :
              LET d == VersionRead(D, k, rows)
              IN /\ d.calls[k].pc = "done"
                 /\ d.calls[k].out = Resolved(Null)
                 /\ d.calls[k].issued = <<>>
                 /\ d.store = store
  /\ \A k \in DOMAIN calls :
       calls[k].pc # "select" /\ calls[k].base >= Highest(MIGRATIONS)
         => calls[k].pc = "done" /\ calls[k].issued = <<>>

C12_Witness ==
  \E k, m \in DOMAIN calls :
    /\ m < k
    /\ calls[m].pc = "done" /\ calls[m].out = Resolved(Null) /\ calls[m].issued # <<>>
    /\ calls[k].pc = "done" /\ calls[k].out = Resolved(Null)
    /\ calls[k].current = Highest(MIGRATIONS) /\ calls[k].issued = <<>>

\* the statement call k is about to execute inside its transaction
NextStmt(c) ==
  CASE c.pc = "up" -> UpStmt(c.pending[c.i], c.j)
    [] c.pc = "version" -> SetUserVersion(c.pending[c.i])
    [] c.pc = "commit" -> CommitStmt

\* C13: when a statement inside a migration's transaction fails, the run
\* issues ROLLBACK next and then rejects with the migration error, which names
\* the migration's version and description and holds the cause; so it does
\* when the ROLLBACK fails too.
C13_FailureRollsBackAndNames ==
  \A k \in DOMAIN calls :
    calls[k].pc \in {"up", "version", "commit"}
      => LET c == calls[k]
             d1 == Step(D, k, FALSE)
         IN /\ d1.calls[k].pc = "rollback"
            /\ d1.calls[k].out = Pending
            /\ \A ok \in BOOLEAN :
                 LET c2 == Step(d1, k, ok).calls[k]
                 IN /\ c2.pc = "done"
                    /\ c2.issued = c.issued \o <<NextStmt(c), RollbackStmt>>
                    /\ c2.out = Rejected(MigrationError(c.pending[c.i],
                                                        StatementError(NextStmt(c))))

C13_Witness ==
  \E k \in DOMAIN calls :
    /\ calls[k].pc = "done"
    /\ IsMigrationError(calls[k].out)
    /\ calls[k].out.err.cause = StatementError(CommitStmt)
    /\ store.tx

\* the version of the last migration call c committed, or where it started
LastCommitted(c) == IF c.i > 1 THEN c.pending[c.i - 1] ELSE c.base

\* C14: a run that has issued ROLLBACK is over: it rejected, ROLLBACK is its
\* last statement, no statement of a later pending migration follows; the
\* persisted counter is the version of the last migration that committed and
\* nothing of the failed migration is in the persisted schema.
C14_FailureHalts ==
  \A k \in DOMAIN calls :
    LET c == calls[k] IN
    /\ RollbackStmt \in Range(c.issued)
         => /\ c.pc = "done"
            /\ IsMigrationError(c.out)
            /\ c.issued[Len(c.issued)] = RollbackStmt
            /\ \A a \in DOMAIN c.issued :
                 c.issued[a].op = "up" => c.issued[a].v <= c.pending[c.i]
    /\ k = Len(calls) /\ (c.pc = "rollback" \/ IsMigrationError(c.out))
         => /\ store.user_version = LastCommitted(c)
            /\ \A j \in 1..UpLen : UpStmt(c.pending[c.i], j) \notin store.schema

C14_Witness ==
  \E k \in DOMAIN calls :
    /\ IsMigrationError(calls[k].out)
    /\ calls[k].i < Len(calls[k].pending)
    /\ k = Len(calls)

\* C15: whatever the order of the registry's entries, a run that ends well
\* has applied the migrations whose version is above the persisted version,
\* each once, in ascending order of version, and no run executes a statement
\* of a migration whose version is at or below the persisted version.
C15_AppliesGreaterAscending ==
  \A k \in DOMAIN calls :
    LET c == calls[k]
        above == {v \in Range(MIGRATIONS) : v > c.current}
    IN /\ c.pc = "done" /\ c.out.st = "resolved"
            => c.issued = Script(SortSeq(SelectSeq(MIGRATIONS, LAMBDA v : v \in above),
                                         LAMBDA a, b : a < b))
       /\ \A a \in DOMAIN c.issued : c.issued[a].op = "up" => c.issued[a].v > c.base

\* C16: no step of any run, failed or not, lowers the persisted version.
C16_VersionNeverDecreases ==
  [][store'.user_version >= store.user_version]_vars

C16_Witness ==
  \E k, m \in DOMAIN calls :
    /\ k < m
    /\ IsMigrationError(calls[k].out)
    /\ calls[k].i = 2
    /\ calls[m].pc = "done" /\ calls[m].out.st = "resolved"
    /\ store.user_version = Highest(MIGRATIONS)
    /\ calls[m].base = calls[k].pending[1]
\* ---- lib/db
\* C17: however many initDb calls are made and however they overlap,
\* Database.load is called at most once and the migration runner is started
\* at most once; an initDb call made once initialization has completed
\* resolves and changes nothing else.
C17_InitOnce ==
  /\ opens <= 1
  /\ Cardinality({k \in DOMAIN calls : calls[k].ran}) <= 1
  /\ (\E k \in DOMAIN calls : calls[k].ran /\ calls[k].out.st = "resolved")
       => LET d == InitDbCall(D)
          IN /\ d.calls[Len(d.calls)].out = Resolved(Null)
             /\ [d EXCEPT !.calls = calls] = D

\* C18: once the migration runner has failed inside an initDb call, that
\* call has rejected with the runner's error, an initDb call made afterwards
\* does not resolve, and a store operation sends no query.
C18_FailedInitStaysUnusable ==
  \A k \in DOMAIN calls :
    calls[k].kind = "init" /\ calls[k].ran /\ calls[k].out.st = "rejected"
    /\ (\A m \in DOMAIN calls : m # k => ~calls[m].ran)
      => /\ LET d == InitDbCall(D) IN d.calls[Len(d.calls)].out.st # "resolved"
         /\ \A op \in StoreOps : \A a \in ArgsOf(op) : Call(D, op, a).queries = 0

\* C19: while initDb has not opened the handle, every store operation, with
\* every argument, rejects with the not-initialized error and sends no query.
C19_NotInitializedRejects ==
  db = 0 =>
    \A op \in StoreOps : \A a \in Args :
      LET r == Call(D, op, a)
      IN /\ r.out = Rejected(NotInitialized)
         /\ r.queries = 0
         /\ r.d = D

\* C20: no row of embeddings has an idea_id that is not the id of a row of
\* ideas, whatever createIdea, deleteIdea, storeEmbedding and deleteEmbedding
\* calls were made, a storeEmbedding for a deleted idea among them; after
\* deleteIdea(id) there is no embedding row of id for any model and id is in
\* no result of getIdea or getIdeas.
C20_NoOrphanEmbeddings ==
  /\ \A e \in embeddings : e[1] \in DOMAIN ideas
  /\ \A id \in Ids :
       LET a == [id |-> id, ids |-> <<>>, flag |-> TRUE, model |-> "multilingual-e5-small"]
           d == Call(D, "deleteIdea", a).d
       IN /\ \A e \in d.embeddings : e[1] # id
          /\ id \notin DOMAIN d.ideas
          /\ Call(d, "getIdea", a).out = Resolved(Null)
          /\ \A flag \in BOOLEAN :
               id \notin Call(d, "getIdeas", [a EXCEPT !.flag = flag]).out.val
          /\ \A m \in StoreModels :
               LET r == Call(d, "storeEmbedding", [a EXCEPT !.model = m])
               IN r.out.st = "rejected" /\ r.d.embeddings = d.embeddings

C20_Witness ==
  /\ uuids = 2
  /\ DOMAIN ideas = {2}
  /\ embeddings = {<<2, "multilingual-e5-small">>, <<2, "other-embedding-model">>}

\* ----------------------------------------------------------------- codec
IsBytes(items) == \A j \in DOMAIN items : items[j] \in 0..255

\* C28: for every vector of float32-representable numbers, the empty one
\* included, serializeEmbedding(v) is an array of exactly 4 * len(v) bytes,
\* each in 0..255, and deserializeEmbedding(serializeEmbedding(v), len(v))
\* equals v element by element.
C28_RoundTrip ==
  /\ codec.fn = "serializeEmbedding" =>
       /\ codec.out.shape = "array"
       /\ Len(codec.out.items) = 4 * Len(codec.vector)
       /\ IsBytes(codec.out.items)
  /\ ( /\ codec.fn = "deserializeEmbedding"
       /\ codec.raw = serializeEmbedding(codec.vector)
       /\ codec.expectedDims = Len(codec.vector) ) =>
       /\ codec.out.shape = "Float32Array"
       /\ Len(codec.out.items) = Len(codec.vector)
       /\ \A j \in DOMAIN codec.vector :
            /\ IsWhole(codec.out.items[j])
            /\ Float32Value(codec.out.items[j]) = codec.vector[j]
C28_Witness ==
  /\ codec.fn = "deserializeEmbedding"
  /\ codec.vector = <<0 - 2, 1>>
  /\ codec.raw = RawArray(<<0, 0, 0, 192, 0, 0, 128, 63>>)
  /\ codec.expectedDims = 2
  /\ codec.out.shape = "Float32Array"

\* what makes a raw value unfit: it is no array at all, or its length is not
\* expectedDims * 4
NotArrayLike == {"string", "null", "undefined", "object", "number"}
LengthOf(raw) == IF raw.shape \in {"array", "Uint8Array"} THEN Len(raw.items) ELSE 0 - 1

\* C29: deserializeEmbedding returns null, and never throws, when the byte
\* length differs from expectedDims * 4 or the input is not array-like at all
\* (a string, null, undefined, a plain object, a number).
C29_NullOnMismatch ==
  codec.fn = "deserializeEmbedding" =>
    /\ codec.out.shape # "throw"
    /\ ( \/ codec.raw.shape \in NotArrayLike
         \/ LengthOf(codec.raw) # codec.expectedDims * 4 ) => codec.out = NullValue
C29_Witness ==
  /\ codec.fn = "deserializeEmbedding"
  /\ codec.raw = RawArray(<<0, 0, 128>>)
  /\ codec.expectedDims = 1
  /\ codec.out = NullValue

C21_UpdateFrame ==
  \A id \in DOMAIN table :
  \A updates \in Updates :
  \A now \in Clock :
    LET after == updateIdea(R, id, updates, now)
        old == table[id]
        new == after.table[id]
    IN /\ DOMAIN after.table = DOMAIN table
       /\ new.updated_at = now
       /\ new.text = (IF updates.text = Undefined THEN old.text ELSE updates.text)
       /\ new.title = (IF updates.title = Undefined THEN old.title ELSE updates.title)
       /\ new.created_at = old.created_at
       /\ new.archived = old.archived
       /\ \A other \in DOMAIN table \ {id} : after.table[other] = table[other]
       /\ after.vectors = vectors
C21_Witness ==
  \E id \in DOMAIN table :
    /\ table[id].title \in Titles
    /\ table[id].archived
    /\ table[id].updated_at # table[id].created_at
    /\ \E j \in DOMAIN vectors : vectors[j].idea_id = id

\* C22: every idea has updatedAt >= createdAt after any sequence of
\* createIdea, updateIdea and archiveIdea calls, and an idea's updatedAt
\* never decreases from one mutation to the next.
C22_UpdatedNotBeforeCreated ==
  /\ [](\A id \in DOMAIN table : table[id].updated_at >= table[id].created_at)
  /\ [][\A id \in (DOMAIN table) \cap (DOMAIN table') :
          table'[id].updated_at >= table[id].updated_at]_vars
\* it does hold of every mutation whose clock reading is not behind the
\* idea's updatedAt
C22_HoldsWhileClockAdvances ==
  \A id \in DOMAIN table :
  \A now \in Clock :
    (now >= table[id].updated_at /\ table[id].updated_at >= table[id].created_at) =>
      \A updates \in Updates, archived \in BOOLEAN :
        LET u == updateIdea(R, id, updates, now).table[id]
            a == archiveIdea(R, id, archived, now).table[id]
        IN /\ u.updated_at >= table[id].updated_at /\ u.updated_at >= u.created_at
           /\ a.updated_at >= table[id].updated_at /\ a.updated_at >= a.created_at

\* ---------------------------------------------------------------- search
\* C23: getAllEmbeddings(model) returns exactly the rows of that model whose
\* stored vector has dims * 4 bytes, decoded, in their stored order; a row
\* that fails the check is skipped and neither fails the call nor costs a
\* valid row.
C23_SkipsCorruptedRows ==
  \A model \in StoreModels :
    LET Good(row) == row.model = model /\ Len(row.vector.items) = row.dims * 4
        kept == SelectSeq(vectors, Good)
        got == getAllEmbeddings(R, model)
    IN /\ Len(got) = Len(kept)
       /\ \A j \in DOMAIN kept :
            /\ got[j].ideaId = kept[j].idea_id
            /\ got[j].vector.shape = "Float32Array"
            /\ Len(got[j].vector.items) = kept[j].dims
            /\ BufferOf(got[j].vector.items) = kept[j].vector.items
C23_Witness ==
  /\ search.pc = "getIdeasByIds"
  /\ Len(search.scored) = 1
  /\ Len(vectors) = 2
  /\ vectors[1].model = EMBEDDING_MODEL
  /\ Len(vectors[1].vector.items) # vectors[1].dims * 4
  /\ vectors[2].model = EMBEDDING_MODEL
  /\ search.scored[1].ideaId = vectors[2].idea_id

\* C24: searchIdeas with an empty or whitespace-only query returns an empty
\* list, sends no embed request and reads nothing from the store.
C24_BlankQueryNoWork ==
  (search.pc # "idle" /\ Trim(search.query) = <<>>) =>
    /\ search.pc = "done"
    /\ search.out = <<>>
    /\ search.embedRequests = 0
    /\ search.reads = 0
C24_Witness ==
  /\ search.pc = "done"
  /\ search.query = <<" ", " ", " ">>
  /\ search.out = <<>>
  /\ vectors # <<>>

Finished == search.pc = "done" /\ Trim(search.query) # <<>>
TopIds == {x.ideaId : x \in Range(search.topResults)}
\* the rows of the active model that pass the length check
ActiveRows ==
  {j \in DOMAIN vectors :
     vectors[j].model = EMBEDDING_MODEL
     /\ Len(vectors[j].vector.items) = vectors[j].dims * 4}

\* C25: for a non-blank query searchIdeas scores every stored embedding of
\* the active model against the query vector and returns results in
\* non-increasing score order, at most topK of them, all drawn from the topK
\* highest-scoring embeddings, each tagged `semantic`, archived ideas included.
C25_RankedTopK ==
  /\ [](Finished =>
          /\ Range(search.topResults) \subseteq Range(search.scored)
          /\ Len(search.topResults) =
               (IF search.topK < Len(search.scored) THEN search.topK ELSE Len(search.scored))
          /\ \A x \in Range(search.topResults), y \in Range(search.scored) :
               y.ideaId \notin TopIds => ~Greater(y.score, x.score)
          /\ Len(search.out) <= search.topK
          /\ \A j \in 1..(Len(search.out) - 1) :
               ~Greater(search.out[j + 1].score, search.out[j].score)
          /\ \A j \in DOMAIN search.out :
               /\ search.out[j].source = "semantic"
               /\ \E x \in Range(search.topResults) :
                    x.ideaId = search.out[j].idea.id /\ x.score = search.out[j].score
          /\ \A id \in TopIds \cap DOMAIN search.ideas :
               \E j \in DOMAIN search.out :
                 /\ search.out[j].idea.id = id
                 /\ search.out[j].idea.archived = search.ideas[id].archived)
  /\ [][(search.pc = "getAllEmbeddings" /\ search'.pc # "getAllEmbeddings") =>
          /\ {x.ideaId : x \in Range(search'.scored)} = {vectors[j].idea_id : j \in ActiveRows}
          /\ \A j \in ActiveRows : \E x \in Range(search'.scored) :
               /\ x.ideaId = vectors[j].idea_id
               /\ x.score = cosineSimilarity(search.queryVector,
                               NumbersOf(Float32ArrayOf(vectors[j].vector.items)))]_vars
C25_Witness ==
  /\ Finished
  /\ search.topK = 1
  /\ Len(search.scored) = 2
  /\ Greater(search.scored[2].score, search.scored[1].score)
  /\ Len(search.out) = 1
  /\ search.out[1].idea.id = search.scored[2].ideaId
  /\ search.out[1].idea.archived

\* C26: a topK embedding whose idea getIdeasByIds does not return is dropped
\* from the results without an error, and the results that remain keep their
\* score order.
C26_MissingIdeaDropped ==
  /\ search.pc = "failed" => search.reads = 0
  /\ Finished =>
       LET Found(x) == x.ideaId \in DOMAIN search.ideas
           kept == SelectSeq(search.topResults, Found)
       IN /\ Len(search.out) = Len(kept)
          /\ \A j \in DOMAIN kept :
               /\ search.out[j].idea.id = kept[j].ideaId
               /\ search.out[j].score = kept[j].score
               /\ search.out[j].idea = rowToIdea(kept[j].ideaId, search.ideas[kept[j].ideaId])
C26_Witness ==
  /\ Finished
  /\ Len(search.topResults) = 2
  /\ search.topResults[1].ideaId \notin DOMAIN search.ideas
  /\ Len(search.out) = 1
  /\ search.out[1].idea.id = search.topResults[2].ideaId

\* ------------------------------------------------------------ save flows
\* C27: in the save-then-embed flows (capture finishSave, indicator
\* handleTranscriptionComplete, dashboard handleUpdate) a rejected or timed-out
\* embedding never fails or undoes the primary write: the idea keeps the text
\* written, and the flow still reaches its completion step (emitting
\* `idea-saved`, or reloading the idea list).
C27_EmbedFailureKeepsWrite ==
  /\ []((flow.pc # "idle" /\ flow.written) =>
          /\ flow.pc # "failed"
          /\ flow.id \in DOMAIN table
          /\ table[flow.id].text = flow.text)
  /\ (flow.pc = "race") ~> (flow.pc = "done" /\ flow.step = CompletionStep(flow.kind))
C27_Witness ==
  /\ flow.pc = "done"
  /\ flow.kind = "handleUpdate"
  /\ flow.race = "rejected"
  /\ flow.logged
  /\ flow.step = "loadIdeas"
  /\ table[flow.id].text = flow.text
\* ----------------------------------------------- cosineSimilarity
\* the sum of a sequence of numbers
RECURSIVE Sum(_)
Sum(q) == IF q = <<>> THEN 0 ELSE Head(q) + Sum(Tail(q))
Products(x, y) == [j \in DOMAIN x |-> x[j] * y[j]]
\* the cosine of two vectors of one length, 0 when a norm is 0
Cosine(x, y) ==
  LET den2 == Sum(Products(x, x)) * Sum(Products(y, y))
  IN IF den2 = 0 THEN [num |-> 0, den2 |-> 1]
     ELSE [num |-> Sum(Products(x, y)), den2 |-> den2]
\* v cut or padded with zeros to n entries
Fit(v, n) == [j \in 1..n |-> At(v, j)]
ZeroNorm(v) == \A j \in DOMAIN v : v[j] = 0
IsNumber(s) == s.den2 > 0
Same(s, t) == ~Greater(s, t) /\ ~Greater(t, s)

\* C31 as stated: cosineSimilarity(a, b) is exactly 0 when a or b has zero
\* norm, and for vectors of different lengths it returns a number, the
\* cosine of the two vectors after the shorter one is padded with zeros,
\* whichever argument is the shorter.
C31_PadsShorter ==
  search.pc = "returned" =>
    LET a == search.a
        b == search.b
        n == Max(Len(a), Len(b))
    IN /\ IsNumber(search.out)
       /\ ZeroNorm(a) \/ ZeroNorm(b) => search.out = [num |-> 0, den2 |-> 1]
       /\ Len(a) # Len(b) => Same(search.out, Cosine(Fit(a, n), Fit(b, n)))

\* C31 amended: cosineSimilarity(a, b) is exactly 0 when a or b has zero
\* norm, and for vectors of different lengths it returns a number, the
\* cosine of a and of b brought to a's length: a shorter b is padded with
\* zeros, the entries of a longer b beyond a's length are ignored.
C31_FitsSecondToFirst ==
  search.pc = "returned" =>
    LET a == search.a
        b == search.b
    IN /\ IsNumber(search.out)
       /\ ZeroNorm(a) \/ ZeroNorm(b) => search.out = [num |-> 0, den2 |-> 1]
       /\ Same(search.out, Cosine(a, Fit(b, Len(a))))

\* a call whose first vector is the shorter one, the second one's extra
\* entry is not 0, and the result is not 0
C31_Witness ==
  /\ search.pc = "returned"
  /\ Len(search.a) < Len(search.b)
  /\ search.b[Len(search.b)] # 0
  /\ search.out.num # 0

\* ----------------------------------------------- the worker's models
\* the model whose pipeline is the extractor
AlreadyLoaded(modelId) == extractor # 0 /\ loads[extractor].model = modelId
\* the latest load is in flight and is a load of modelId
AlreadyLoading(modelId) ==
  /\ loadVersion # 0
  /\ loads[loadVersion].st = "loading"
  /\ loads[loadVersion].model = modelId

\* C32: a `load` for a model id that is already loaded or already loading
\* starts no new pipeline load and changes neither loadVersion,
\* currentModelId nor extractor.
C32_LoadIdempotent ==
  \A modelId \in Models :
    AlreadyLoaded(modelId) \/ AlreadyLoading(modelId) =>
      LET w == OnWorkerMessage(W, LoadReq(modelId))
      IN /\ w.loads = loads
         /\ w.loadVersion = loadVersion
         /\ w.currentModelId = currentModelId
         /\ w.extractor = extractor

\* the pipelines that were loaded and on which dispose() was not called
Held == {v \in DOMAIN loads : loads[v].st = "fulfilled" /\ loads[v].val = v}

\* C33: the worker holds at most one loaded, not yet disposed model: when a
\* newly loaded pipeline becomes the extractor, the pipeline that was the
\* extractor before has been disposed or there was none.
C33_AtMostOneModel ==
  /\ [](Cardinality(Held) <= 1)
  /\ [][extractor' # extractor => extractor = 0 \/ extractor \notin Held']_vars

\* every message posted to the worker was taken, every handler returned,
\* every load settled
FullyProcessed ==
  /\ toWorker = <<>>
  /\ hs = <<>>
  /\ \A v \in DOMAIN loads : loads[v].st \in {"fulfilled", "rejected"}
NoLoadFailed == \A v \in DOMAIN loads : loads[v].st # "rejected"

\* C34: once every `load` and `embed` message has been fully processed and
\* no load failed, the extractor is a pipeline of the model named by the
\* most recent `load` message.
C34_LastLoadWins ==
  FullyProcessed /\ NoLoadFailed /\ lastLoad # Null => AlreadyLoaded(lastLoad)

\* C35: whenever loadModel(modelId) resolves, the pipeline it yields is a
\* loaded pipeline of modelId, never null and never the pipeline of another
\* model: the promise of every load is fulfilled with such a pipeline, and
\* every embed handler computes with a pipeline of the model it asked for.
C35_ResolvesWithRequestedModel ==
  /\ \A v \in DOMAIN loads :
       loads[v].st = "fulfilled" =>
         /\ loads[v].val \in Held
         /\ loads[loads[v].val].model = loads[v].model
  /\ \A k \in DOMAIN hs :
       hs[k].pc = "infer" =>
         /\ hs[k].ext \in Held
         /\ loads[hs[k].ext].model = hs[k].want

\* ----------------------------------------------- the client's promises
\* C36: every promise of embedForStorage / embedForQuery settles once, by a
\* result, by a tagged or broadcast error or by its own timer, and it
\* settles eventually when its timer may fire: a pending promise has a live
\* timer, a settled promise never changes, a promise is rejected with the
\* timeout error only by its own timer, and no promise stays pending.
C36_SettlesOnceAndEventually ==
  /\ [](\A n \in DOMAIN promise : promise[n].st = "pending" => n \in timers)
  /\ [][\A n \in DOMAIN promise :
          /\ promise[n].st # "pending" => promise'[n] = promise[n]
          /\ promise[n].st = "pending" /\ promise'[n].st # "pending"
               => /\ n \in timers /\ n \notin timers'
                  /\ promise'[n].st = "resolved" \/ promise'[n].st = "rejected"]_vars
  /\ \A n \in 1..MaxRequests :
       (n \in DOMAIN promise) ~> (n \in DOMAIN promise /\ promise[n].st # "pending")

\* two calls with one request id: the first was rejected by its timer, the
\* second was resolved by a result
C36_Witness ==
  \E n, m \in DOMAIN promise :
    /\ n < m
    /\ reqs[n].id = reqs[m].id
    /\ promise[n] = Rejected(TimedOut)
    /\ promise[m].st = "resolved"

\* the calls whose records the pending map holds
Recorded == {pendingRequests[i] : i \in DOMAIN pendingRequests}

\* C37: the live timers correspond one to one with the entries of the
\* pending map: the timer of every record is live, and no timer is live
\* for a call that was resolved, rejected or removed from the map.
C37_TimersMatchPending ==
  /\ timers = Recorded
  /\ \A n \in timers : promise[n].st = "pending"

\* ----------------------------------------------- overlapping saves
\* C38: when two embedForStorage calls for one idea overlap, then once all
\* responses and timers have been processed the embedding stored for the
\* idea is the one computed from the idea's latest text.
C38_LatestTextEmbedded ==
  \A id \in IdeaIds :
    /\ toWorker = <<>>
    /\ timers = {}
    /\ Cardinality({n \in DOMAIN reqs : reqs[n].id = id}) >= 2
    => \E j \in DOMAIN vectors :
         vectors[j] = EmbeddingRow(id, EMBEDDING_MODEL,
                                   NumbersFor(Embed(DefaultModel, Passage(table[id].text))))

\* ----------------------------------------------- the lifecycle indicator
\* no message is in flight, every handler of the worker returned and every
\* load settled: nothing is left that could move the indicator
AtRest ==
  /\ toWorker = <<>>
  /\ toClient = <<>>
  /\ hs = <<>>
  /\ \A v \in DOMAIN loads : loads[v].st \in {"fulfilled", "rejected"}

\* C39: after preloadEmbeddingModel set the indicator to `loading`, the
\* indicator reaches `ready` or `error` once the worker's load has
\* terminated, also when the worker had the model loaded or loading when
\* the `load` arrived: the indicator is not left at `loading` when the
\* worker and the channel are at rest.
C39_LoadingEnds == AtRest => embeddingLifecycle.state # "loading"

\* ----------------------------------------------- initDb and the runner
\* C40: however initDb calls interleave, no initDb call resolves while the
\* migration runner is still executing: in the step in which an initDb
\* promise resolves, no run of the runner is under way.
C40_ResolvesAfterMigrations ==
  [][\A k \in DOMAIN calls' :
       /\ calls'[k].kind = "init"
       /\ calls'[k].out.st = "resolved"
       /\ k \in DOMAIN calls => calls[k].out.st # "resolved"
       => \A m \in DOMAIN calls' : ~(calls'[m].ran /\ calls'[m].pc # "done")]_vars

====
